---- MODULE Spec2Model ----
(***************************************************************************)
(* Model of the SCOUT resume parsing pipeline: the profile validator       *)
(* (profile_validator.py over profile_schema.py), the extraction router    *)
(* (parser_service.py), the section scans of the two structural            *)
(* extractors (docx_extractor.py, pdf_extractor.py), the skills normalizer *)
(* (skills_normalizer.py) and a whole PDF job from the stored file to the  *)
(* metadata of the assembled profile.                                      *)
(***************************************************************************)
EXTENDS Integers, Sequences, FiniteSets, TLC

VARIABLES
    vpc,        \* validator call: "idle" before the call, "done" after it
    vEntry,     \* entry point that was called
    vArg,       \* argument the caller passed
    vStrict,    \* strict flag of the call
    vData,      \* the caller's profile dictionary after the call (mutated in place)
    vResult,    \* what the call produced: a ProfileValidationResult or a raised exception
    ppc,        \* parse_resume: position in the method
    pReq,       \* parse_resume: the request and its environment
    pType,      \* parse_resume: file_type local
    pTrace,     \* parse_resume: trace_id local ("unset" until record_parse_start)
    pExc,       \* parse_resume: exception in flight ("none" when there is none)
    pResult,    \* parse_resume: result local (extractor output)
    pMetrics,   \* MetricsCollector: terminal events recorded, in order
    pResponse,  \* parse_resume: the ParsingJobResponse returned
    dpc,        \* DOCX scan: "idle", "extract", "scan" or "done"
    dDoc,       \* DOCX scan: document.paragraphs
    dParas,     \* DOCX scan: list built by _extract_paragraphs
    dCursor,    \* DOCX scan: number of paragraphs already processed
    dCurrent,   \* DOCX scan: current_section
    dSections,  \* DOCX scan: sections dict (section name -> list of indices)
    dContent,   \* DOCX scan: section name -> the texts _extract_content joined for it
    lLines,     \* PDF scan: lines
    lCursor,    \* PDF scan: number of lines already processed
    lCurrent,   \* PDF scan: current_section
    lSections,  \* PDF scan: sections dict (section name -> list of line indices)
    sAlias,     \* SkillsNormalizer._alias_to_canonical: lower-cased alias -> skill_info object
    sCanon,     \* SkillsNormalizer._canonical_to_info: lower-cased canonical name -> skill_info object
    sInfos,     \* the skill_info objects (shared by both indexes), by object identity
    sCalls,     \* number of add_custom_alias calls made so far
    sQueries,   \* number of normalize_skill / normalize_skills_list calls made so far
    sCall,      \* the last normalize_skill / normalize_skills_list call and what it returned
    spc,        \* add_custom_alias running in another thread: "idle" or "update_alias"
    sPending,   \* arguments of the add_custom_alias call in progress
    xpc,        \* PDF job: position ("idle", "read", "process", "scan", "normalize", "assemble", "done")
    xFile,      \* PDF job: the stored file
    xRead,      \* PDF job: how the extractor read the file and the bytes it got
    xText,      \* PDF job: text_content of extract
    xWarnings,  \* PDF job: warnings list of extract
    xExtracted, \* PDF job: extracted_data returned by _process_text_content
    xResult,    \* PDF job: result of extract
    xProfile,   \* PDF job: metadata of the profile assembled from the result
    fDisk,      \* file store: the files of one storage directory (path -> file)
    fOriginal,  \* file store: file_content of the last store_file call
    fResult,    \* file store: outcome of the last read_encrypted_file call
    fUpload,    \* file store: response of the last upload_resume request
    fOps,       \* file store: number of operations performed so far
    epc,        \* experience entry: "idle", "call" or "done"
    eEntry,     \* experience entry: the lines of the block handed to _parse_experience_entry
    eParsed,    \* experience entry: what _parse_experience_entry returned
    cExtracted, \* confidence: the extracted content that is scored
    cDocx,      \* confidence: score of DOCXExtractor, in thousandths (Unscored before the call)
    cPdf,       \* confidence: score of PDFExtractor, in thousandths (Unscored before the call)
    tpc,        \* transformation: "extracted" before _transform_parser_output, "done" after it
    tMethod,    \* transformation: extraction_method of the extractor's result
    tSections,  \* transformation: the list sections of the extractor's result
    tProfile    \* transformation: the list sections of the candidate profile

vvars == <<vpc, vEntry, vArg, vStrict, vData, vResult>>
pvars == <<ppc, pReq, pType, pTrace, pExc, pResult, pMetrics, pResponse>>
dvars == <<dpc, dDoc, dParas, dCursor, dCurrent, dSections, dContent>>
lvars == <<lLines, lCursor, lCurrent, lSections>>
svars == <<sAlias, sCanon, sInfos, sCalls, sQueries, sCall, spc, sPending>>
xvars == <<xpc, xFile, xRead, xText, xWarnings, xExtracted, xResult, xProfile>>
fvars == <<fDisk, fOriginal, fResult, fUpload, fOps>>
\* the groups of the pipeline stages above, and the groups of the file store
\* and of the stand-alone functions
ovars == <<vvars, pvars, dvars, lvars, svars, xvars>>
evars == <<epc, eEntry, eParsed>>
cvars == <<cExtracted, cDocx, cPdf>>
tvars == <<tpc, tMethod, tSections, tProfile>>
nvars == <<fvars, evars, cvars, tvars>>
vars == <<ovars, nvars>>

(***************************************************************************)
(* Bounds of the model                                                      *)
(***************************************************************************)
MaxIssues == 1      \* top-level fields of one profile that are wrong-typed or missing
MaxDepth == 2       \* nesting depth of the values stored under additional_sections
MaxUnits == 4       \* content units (paragraphs or lines) of one document
MaxList == 2        \* raw skills passed to one normalize_skills_list call
MaxCalls == 2       \* add_custom_alias calls made on one normalizer
MaxQueries == 1     \* normalize_skill and normalize_skills_list calls made on one normalizer
MaxPdfLines == 3    \* lines of text of the document of one PDF job

None == "None"

\* Keys of SECTION_PATTERNS, in the order of the dictionary
SectionOrder ==
    <<"contact", "summary", "experience", "education", "skills", "projects", "achievements">>

SectionNames == {SectionOrder[i] : i \in DOMAIN SectionOrder}

\* The sections dictionary of a scan: for each name, whether it is a key
\* and the list stored under it
NoSections == [name \in SectionNames |-> [present |-> FALSE, idx |-> <<>>]]

\* No text assembled for any section
NoTexts == [name \in SectionNames |-> <<>>]

\* The elements of a sequence
SeqToSet(s) == {s[i] : i \in DOMAIN s}

(***************************************************************************)
(* profile_schema.py                                                        *)
(***************************************************************************)

\* A version string is modelled as the sequence of its dot-separated
\* components; a component that int() rejects is -1.
PROFILE_SCHEMA_VERSION == <<1, 0, 0>>

\* Values a caller may store under 'schema_version':
\*   absent  - key missing (or None / "" / 0: falsy)
\*   str     - a string, split into components
\*   int     - a truthy value that is not a string
VerAbsent == [k |-> "absent", parts |-> <<>>]
VerStr(p) == [k |-> "str", parts |-> p]
VerInt == [k |-> "int", parts |-> <<>>]

\* Declared fields of ProfileJSONSchema in declaration order
FieldOrder ==
    <<"schema_version", "generated_at", "extraction_method", "source_file",
      "contact", "summary", "experience", "education", "skills", "projects",
      "achievements", "additional_sections", "metadata", "warnings", "errors">>

AllFields == SeqToSet(FieldOrder)

\* Fields declared with Field(...): no default
RequiredFields == {"extraction_method", "source_file", "metadata"}

\* Fields tracked by the bad/missing sets of a profile dictionary
PlainFields == AllFields \ {"schema_version"}

prohibited_fields == {"age", "gender", "race", "nationality", "marital_status"}

\* Key names used in additional_sections and str.lower() on them
Keys == {"Gender", "hobbies"}

Lower(key) ==
    CASE key = "Gender" -> "gender"
      [] key = "Python" -> "python"
      [] key = "C#" -> "c#"
      [] key = ".NET" -> ".net"
      [] key = "Spring" -> "spring"
      [] key = "Framework" -> "framework"
      [] key = "Redis" -> "redis"
      [] key = "Kotlin" -> "kotlin"
      [] key = "PDF" -> "pdf"
      [] OTHER -> key

\* JSON-like values: a scalar, a dictionary with at most one entry, a list
\* with at most one element.
Scalar == [t |-> "scalar"]
EmptyDict == [t |-> "dict0"]
Dict1(key, val) == [t |-> "dict", k |-> key, v |-> val]
List1(val) == [t |-> "list", v |-> val]
NoBag == [t |-> "absent"]

RECURSIVE ValuesOfDepth(_)
ValuesOfDepth(n) ==
    IF n = 0 THEN {Scalar, EmptyDict}
    ELSE LET S == ValuesOfDepth(n - 1)
         IN S \cup {Dict1(key, val) : key \in Keys, val \in S}
              \cup {List1(val) : val \in S}

\* Dictionaries a caller may store under additional_sections
Bags == {NoBag, EmptyDict} \cup {Dict1(key, val) : key \in Keys, val \in ValuesOfDepth(MaxDepth)}

IsDict(val) == val.t \in {"dict", "dict0"}

\* The scan of check_dict_for_prohibited with the case-sensitive comparison
\* key in prohibited_fields
RECURSIVE check_dict_case_sensitive(_, _)
check_dict_case_sensitive(d, path) ==
    IF d.t # "dict" THEN <<>>
    ELSE LET full_path == Append(path, d.k)
         IN IF d.k \in prohibited_fields THEN full_path
            ELSE IF IsDict(d.v) THEN check_dict_case_sensitive(d.v, full_path)
            ELSE <<>>

\* check_dict_for_prohibited: the full path of the first prohibited key, or
\* <<>> when the scan raises nothing.  Only dictionary values are entered.
RECURSIVE check_dict_for_prohibited(_, _)
check_dict_for_prohibited(d, path) ==
    IF d.t # "dict" THEN <<>>
    ELSE LET full_path == Append(path, d.k)
         IN IF Lower(d.k) \in prohibited_fields THEN full_path
            ELSE IF IsDict(d.v) THEN check_dict_for_prohibited(d.v, full_path)
            ELSE <<>>

\* privacy_compliance_check: the path the ValueError names, <<>> if it passes
privacy_compliance_check(bag) ==
    IF bag.t = "dict" THEN check_dict_for_prohibited(bag, <<"additional_sections">>)
    ELSE <<>>

\* validate_schema_version: ^\d+\.\d+\.\d+$
validate_schema_version(parts) ==
    /\ Len(parts) = 3
    /\ \A i \in 1..3 : parts[i] >= 0

\* is_schema_compatible: "raise" stands for the AttributeError of
\* profile_version.split on a value that is not a string.
is_schema_compatible(ver, current) ==
    IF ver.k # "str" THEN "raise"
    ELSE IF \E i \in DOMAIN ver.parts : ver.parts[i] < 0 THEN "no"   \* ValueError
    ELSE IF ver.parts[1] # current[1] THEN "no"
    ELSE IF Len(ver.parts) < 2 THEN "no"                             \* IndexError
    ELSE IF ver.parts[2] > current[2] THEN "no"
    ELSE "yes"

\* A profile dictionary:
\*   ver     - value under 'schema_version'
\*   bad     - fields other than schema_version whose value has the wrong type
\*   missing - fields other than schema_version that are not in the dictionary
\*   nested  - contact -> phone is rejected by validate_phone
\*   bag     - value under additional_sections when it is a dictionary
ProfileData(ver, bad, missing, nested, bag) ==
    [ver |-> ver, bad |-> bad, missing |-> missing, nested |-> nested, bag |-> bag]

\* One entry of ValidationError.errors()
FieldError(loc, why) == [kind |-> "field", loc |-> loc, why |-> why, path |-> <<>>]
PrivacyError(path) == [kind |-> "field", loc |-> <<>>, why |-> "prohibited", path |-> path]

\* Field validation of one declared field: the errors it contributes
FieldErrorsOf(data, f) ==
    IF f = "schema_version" THEN
        IF data.ver.k = "absent" THEN <<>>
        ELSE IF data.ver.k = "int" THEN <<FieldError(<<f>>, "type")>>
        ELSE IF ~validate_schema_version(data.ver.parts) THEN <<FieldError(<<f>>, "semver")>>
        ELSE <<>>
    ELSE IF f \in data.missing THEN
        IF f \in RequiredFields THEN <<FieldError(<<f>>, "missing")>> ELSE <<>>
    ELSE IF f \in data.bad THEN <<FieldError(<<f>>, "type")>>
    ELSE IF f = "contact" /\ data.nested THEN <<FieldError(<<"contact", "phone">>, "value")>>
    ELSE <<>>

RECURSIVE FieldErrors(_, _)
FieldErrors(data, order) ==
    IF order = <<>> THEN <<>>
    ELSE FieldErrorsOf(data, Head(order)) \o FieldErrors(data, Tail(order))

\* The model instance ProfileJSONSchema(**data) builds
Profile(data) ==
    [schema_version |-> IF data.ver.k = "absent" THEN PROFILE_SCHEMA_VERSION ELSE data.ver.parts,
     additional_sections |->
         IF data.bag.t = "absent" \/ "additional_sections" \in data.missing
         THEN EmptyDict ELSE data.bag,
     from_input |-> (AllFields \ data.missing)
                    \ ((IF data.ver.k = "absent" THEN {"schema_version"} ELSE {})
                       \cup (IF data.bag.t = "absent" THEN {"additional_sections"} ELSE {}))]

NoProfile == [schema_version |-> <<>>, additional_sections |-> NoBag, from_input |-> {}]

\* ProfileJSONSchema(**data): field validation first; the mode='after' model
\* validator runs only when every field validated.
ProfileJSONSchema(data) ==
    LET ferrs == FieldErrors(data, FieldOrder)
        ppath == privacy_compliance_check(
                     IF "additional_sections" \in data.missing THEN NoBag ELSE data.bag)
    IN IF ferrs # <<>> THEN [ok |-> FALSE, errs |-> ferrs, profile |-> NoProfile]
       ELSE IF ppath # <<>> THEN [ok |-> FALSE, errs |-> <<PrivacyError(ppath)>>, profile |-> NoProfile]
       ELSE [ok |-> TRUE, errs |-> <<>>, profile |-> Profile(data)]

\* migrate_profile_schema, called with a version that differs and is compatible
migrate_profile_schema(data) ==
    [data EXCEPT !.ver = VerStr(PROFILE_SCHEMA_VERSION)]

(***************************************************************************)
(* profile_validator.py                                                     *)
(***************************************************************************)

\* Entries of the errors and warnings lists
IncompatibleError(ver) == [kind |-> "incompatible", ver |-> ver]
FailedToCleanError(errs) == [kind |-> "failed_to_clean", inner |-> errs]
UnexpectedError == [kind |-> "unexpected"]
InvalidJsonError == [kind |-> "invalid_json"]
EmptyParserResultError == [kind |-> "parser_result_empty"]
TransformFailedError == [kind |-> "transformation_failed"]
NoVersionWarning == [kind |-> "no_version"]
MigratedWarning(ver) == [kind |-> "migrated", ver |-> ver]
RemovedWarning(err) == [kind |-> "removed", err |-> err]

\* ProfileValidationResult; raised # "none" stands for an exception that
\* left the entry point instead of a result.
ProfileValidationResult(is_valid, profile, errors, warnings) ==
    [raised |-> "none", is_valid |-> is_valid, profile |-> profile,
     errors |-> errors, warnings |-> warnings]

Raised(exc) ==
    [raised |-> exc, is_valid |-> FALSE, profile |-> NoProfile,
     errors |-> <<>>, warnings |-> <<>>]

\* validate_profile, lines 72-85: the version check.  next is "validate"
\* (fall through to line 88), "return" (line 85) or "raise" (an exception
\* that the handler of line 130 receives).
\* The same check without the assignment of line 76
VersionStepNoAssign(data, strict) ==
    IF data.ver.k = "absent" THEN
        [data |-> data, warnings |-> <<NoVersionWarning>>, errors |-> <<>>, next |-> "validate"]
    ELSE IF data.ver # VerStr(PROFILE_SCHEMA_VERSION) THEN
        LET compat == is_schema_compatible(data.ver, PROFILE_SCHEMA_VERSION)
        IN IF compat = "raise" THEN
               [data |-> data, warnings |-> <<>>, errors |-> <<>>, next |-> "raise"]
           ELSE IF compat = "yes" THEN
               [data |-> migrate_profile_schema(data),
                warnings |-> <<MigratedWarning(data.ver)>>, errors |-> <<>>, next |-> "validate"]
           ELSE
               [data |-> data, warnings |-> <<>>, errors |-> <<IncompatibleError(data.ver)>>,
                next |-> IF strict THEN "return" ELSE "validate"]
    ELSE [data |-> data, warnings |-> <<>>, errors |-> <<>>, next |-> "validate"]

VersionStep(data, strict) ==
    IF data.ver.k = "absent" THEN
        [data |-> [data EXCEPT !.ver = VerStr(PROFILE_SCHEMA_VERSION)],
         warnings |-> <<NoVersionWarning>>, errors |-> <<>>, next |-> "validate"]
    ELSE IF data.ver # VerStr(PROFILE_SCHEMA_VERSION) THEN
        LET compat == is_schema_compatible(data.ver, PROFILE_SCHEMA_VERSION)
        IN IF compat = "raise" THEN
               [data |-> data, warnings |-> <<>>, errors |-> <<>>, next |-> "raise"]
           ELSE IF compat = "yes" THEN
               [data |-> migrate_profile_schema(data),
                warnings |-> <<MigratedWarning(data.ver)>>, errors |-> <<>>, next |-> "validate"]
           ELSE
               [data |-> data, warnings |-> <<>>, errors |-> <<IncompatibleError(data.ver)>>,
                next |-> IF strict THEN "return" ELSE "validate"]
    ELSE [data |-> data, warnings |-> <<>>, errors |-> <<>>, next |-> "validate"]

\* A copy of the dictionary from which nothing is deleted
CleanKeepsFields(data, validation_errors) == data

\* _clean_invalid_fields: a copy of the dictionary without the top-level
\* fields that an error of path length one names

_clean_invalid_fields(data, validation_errors) ==
    LET named == {validation_errors[i].loc[1] :
                     i \in {j \in DOMAIN validation_errors : Len(validation_errors[j].loc) = 1}}
    IN [ver |-> IF "schema_version" \in named THEN VerAbsent ELSE data.ver,
        bad |-> data.bad \ named,
        missing |-> data.missing \cup (named \cap PlainFields),
        nested |-> data.nested /\ "contact" \notin named,
        bag |-> IF "additional_sections" \in named THEN NoBag ELSE data.bag]

RemovedWarnings(errors) == [i \in DOMAIN errors |-> RemovedWarning(errors[i])]

\* The same, with a successful retry that reports nothing about the errors
ValidateFromDropsErrors(vs, strict) ==
    LET first == ProfileJSONSchema(vs.data)
    IN IF first.ok THEN
           ProfileValidationResult(TRUE, first.profile, <<>>, vs.warnings)
       ELSE
           LET errors == vs.errors \o first.errs
           IN IF strict THEN ProfileValidationResult(FALSE, NoProfile, errors, vs.warnings)
              ELSE LET cleaned_data == _clean_invalid_fields(vs.data, first.errs)
                       second == ProfileJSONSchema(cleaned_data)
                   IN IF second.ok THEN
                          ProfileValidationResult(TRUE, second.profile, <<>>, vs.warnings)
                      ELSE ProfileValidationResult(FALSE, NoProfile,
                               Append(errors, FailedToCleanError(second.errs)), vs.warnings)

\* validate_profile, lines 87-128, for a dictionary that passed the version check
ValidateFrom(vs, strict) ==
    LET first == ProfileJSONSchema(vs.data)
    IN IF first.ok THEN
           \* line 99: the errors list is not passed on
           ProfileValidationResult(TRUE, first.profile, <<>>, vs.warnings)
       ELSE
           LET errors == vs.errors \o first.errs
           IN IF strict THEN ProfileValidationResult(FALSE, NoProfile, errors, vs.warnings)
              ELSE LET cleaned_data == _clean_invalid_fields(vs.data, first.errs)
                       second == ProfileJSONSchema(cleaned_data)
                   IN IF second.ok THEN
                          ProfileValidationResult(TRUE, second.profile, <<>>,
                                                  vs.warnings \o RemovedWarnings(errors))
                      ELSE ProfileValidationResult(FALSE, NoProfile,
                               Append(errors, FailedToCleanError(second.errs)), vs.warnings)

\* A call argument: a dictionary, None, a falsy value that is not a
\* dictionary ([] , 0, ""), or a truthy one ([1], 5, "abc").
ArgDict(data) == [kind |-> "dict", data |-> data]
NoData == ProfileData(VerAbsent, {}, {}, FALSE, NoBag)
ArgOther(kind) == [kind |-> kind, data |-> NoData]

\* validate_profile: the result and the caller's dictionary after the call
validate_profile(arg, strict) ==
    IF arg.kind = "truthy" THEN
        \* line 65, outside the try: list(profile_data.keys())
        [result |-> Raised("AttributeError"), data |-> arg.data]
    ELSE IF arg.kind # "dict" THEN
        \* line 73, inside the try: profile_data.get
        [result |-> ProfileValidationResult(FALSE, NoProfile, <<UnexpectedError>>, <<>>),
         data |-> arg.data]
    ELSE LET vs == VersionStep(arg.data, strict)
         IN IF vs.next = "raise" THEN
                [result |-> ProfileValidationResult(FALSE, NoProfile,
                                Append(vs.errors, UnexpectedError), vs.warnings),
                 data |-> vs.data]
            ELSE IF vs.next = "return" THEN
                [result |-> ProfileValidationResult(FALSE, NoProfile, vs.errors, vs.warnings),
                 data |-> vs.data]
            ELSE [result |-> ValidateFrom(vs, strict), data |-> vs.data]

\* validate_profile_json: text is None (not a string), text that json.loads
\* rejects, or text that decodes to the given value
JsonText(kind, value) == [kind |-> kind, value |-> value]

validate_profile_json(text, strict) ==
    IF text.kind = "not_str" THEN
        [result |-> Raised("TypeError"), data |-> NoData]
    ELSE IF text.kind = "invalid" THEN
        [result |-> ProfileValidationResult(FALSE, NoProfile, <<InvalidJsonError>>, <<>>),
         data |-> NoData]
    ELSE validate_profile(text.value, strict)

\* A parser result: a dictionary with its 'sections' value being a
\* dictionary or not, the top-level profile fields it fills with a value of
\* the wrong type, and whether the phone it extracted fails validate_phone.
ParserResult(sections_ok, bad, phone_bad) ==
    [kind |-> "dict", sections_ok |-> sections_ok, bad |-> bad, phone_bad |-> phone_bad]
ParserOther(kind) == [kind |-> kind, sections_ok |-> FALSE, bad |-> {}, phone_bad |-> FALSE]

\* _transform_parser_output: "raise" when parser_result['sections'] has no get
_transform_parser_output(pr) ==
    IF ~pr.sections_ok THEN [raised |-> TRUE, data |-> NoData]
    ELSE [raised |-> FALSE,
          data |-> ProfileData(VerStr(PROFILE_SCHEMA_VERSION), pr.bad, {"additional_sections"},
                               pr.phone_bad, NoBag)]

validate_parser_output(pr) ==
    IF pr.kind = "truthy" THEN
        \* line 188, before any try: list(parser_result.keys())
        [result |-> Raised("AttributeError"), data |-> NoData]
    ELSE IF pr.kind # "dict" THEN
        [result |-> ProfileValidationResult(FALSE, NoProfile, <<EmptyParserResultError>>, <<>>),
         data |-> NoData]
    ELSE LET t == _transform_parser_output(pr)
         IN IF t.raised THEN
                [result |-> ProfileValidationResult(FALSE, NoProfile, <<TransformFailedError>>, <<>>),
                 data |-> NoData]
            ELSE validate_profile(ArgDict(t.data), FALSE)

(***************************************************************************)
(* Calls of the validator                                                   *)
(***************************************************************************)

\* Version values the callers pass: none, 5, "1.0.0", "1.0.1", "1.1.0",
\* "2.0.0", "1.0", "1", "abc"
Versions ==
    {VerAbsent, VerInt, VerStr(<<1, 0, 0>>), VerStr(<<1, 0, 1>>), VerStr(<<1, 1, 0>>),
     VerStr(<<2, 0, 0>>), VerStr(<<1, 0>>), VerStr(<<1>>), VerStr(<<-1>>)}

ProfileInputs ==
    {ProfileData(ver, bad, missing, nested, bag) :
        ver \in Versions,
        bad \in {b \in SUBSET PlainFields : Cardinality(b) <= MaxIssues},
        missing \in {m \in SUBSET RequiredFields : Cardinality(m) <= MaxIssues},
        nested \in BOOLEAN,
        bag \in Bags}

WellFormedInput(data) ==
    /\ data.bad \cap data.missing = {}
    /\ Cardinality(data.bad) + Cardinality(data.missing) <= MaxIssues
    /\ "additional_sections" \in data.bad => data.bag = NoBag
    /\ data.nested => "contact" \notin data.bad

Args == {ArgDict(data) : data \in {d \in ProfileInputs : WellFormedInput(d)}}
            \cup {ArgOther("none"), ArgOther("falsy"), ArgOther("truthy")}

JsonTexts == {JsonText("not_str", ArgOther("none")), JsonText("invalid", ArgOther("none"))}
                \cup {JsonText("valid", arg) : arg \in Args}

ParserResults ==
    {ParserResult(sections_ok, bad, phone_bad) :
        sections_ok \in BOOLEAN,
        bad \in {b \in SUBSET {"extraction_method", "warnings"} : Cardinality(b) <= MaxIssues},
        phone_bad \in BOOLEAN}
    \cup {ParserOther("none"), ParserOther("falsy"), ParserOther("truthy")}

NoResult == Raised("not_called")

CallValidateProfile ==
    /\ vpc = "idle"
    /\ \E arg \in Args, strict \in BOOLEAN :
        LET r == validate_profile(arg, strict)
        IN /\ vEntry' = "validate_profile"
           /\ vArg' = arg
           /\ vStrict' = strict
           /\ vData' = r.data
           /\ vResult' = r.result
    /\ vpc' = "done"
    /\ UNCHANGED <<pvars, dvars, lvars, svars, xvars, nvars>>

CallValidateProfileJson ==
    /\ vpc = "idle"
    /\ \E text \in JsonTexts, strict \in BOOLEAN :
        LET r == validate_profile_json(text, strict)
        IN /\ vEntry' = "validate_profile_json"
           /\ vArg' = text
           /\ vStrict' = strict
           /\ vData' = r.data
           /\ vResult' = r.result
    /\ vpc' = "done"
    /\ UNCHANGED <<pvars, dvars, lvars, svars, xvars, nvars>>

CallValidateParserOutput ==
    /\ vpc = "idle"
    /\ \E pr \in ParserResults :
        LET r == validate_parser_output(pr)
        IN /\ vEntry' = "validate_parser_output"
           /\ vArg' = pr
           /\ vStrict' = FALSE
           /\ vData' = r.data
           /\ vResult' = r.result
    /\ vpc' = "done"
    /\ UNCHANGED <<pvars, dvars, lvars, svars, xvars, nvars>>

(***************************************************************************)
(* skills_normalizer.py: SkillsNormalizer                                   *)
(*                                                                          *)
(* A string is the sequence of its whitespace-separated words, so that      *)
(* "python 3" is <<"python", "3">> and a blank string is <<>>.  The word    *)
(* level operations of the cleaning pipeline are tables over the words the  *)
(* model uses.                                                              *)
(***************************************************************************)
EmptyMap == [k \in {} |-> None]
Put(map, key, val) == [k \in DOMAIN map \cup {key} |-> IF k = key THEN val ELSE map[k]]

\* str.lower() of a string
LowerStr(str) == [i \in DOMAIN str |-> Lower(str[i])]

\* re.sub(r'[.,;:!?]', '', word)
StripPunctuation(word) ==
    CASE word = ".net" -> "net"
      [] word = ".NET" -> "NET"
      [] word = "python3.x" -> "python3x"
      [] OTHER -> word

\* str.title() of one word
TitleWord(word) ==
    CASE word \in {"python", "Python"} -> "Python"
      [] word \in {"net", "NET"} -> "Net"
      [] word \in {"spring", "Spring"} -> "Spring"
      [] word \in {"kotlin", "Kotlin"} -> "Kotlin"
      [] word \in {"redis", "Redis"} -> "Redis"
      [] word = "py" -> "Py"
      [] word = "kt" -> "Kt"
      [] word = "python3" -> "Python3"
      [] word = "python3x" -> "Python3X"
      [] word = "dotnet" -> "Dotnet"
      [] word = "c" -> "C"
      [] word = "sharp" -> "Sharp"
      [] word = "c#" -> "C#"
      [] word = "boot" -> "Boot"
      [] word = "mvc" -> "Mvc"
      [] OTHER -> word

TitleStr(str) == [i \in DOMAIN str |-> TitleWord(str[i])]

\* words matching \d+(\.\d+)* and words of the form (...)
VersionWords == {"3"}
ParentheticalWords == {"(cache)"}

QualifierPhrases == {<<"proficient", "in">>, <<"experience", "with">>, <<"knowledge", "of">>}
CategoryWords == {"programming", "development", "framework", "library", "database"}

\* SkillCategoryEnum values, in the order of their string values
CategoryOrder ==
    <<"certifications", "cloud", "databases", "frameworks", "languages",
      "other", "programming", "soft_skills", "technical", "tools">>

\* The entries of SKILL_ALIASES for Python, C#, Spring Framework and Redis,
\* in dictionary order
SKILL_ALIASES ==
    << [canonical |-> <<"Python">>,
        aliases |-> << <<"python3">>, <<"py">>, <<"python", "3">>, <<"python3.x">> >>,
        category |-> "programming"],
       [canonical |-> <<"C#">>,
        aliases |-> << <<"c", "sharp">>, <<"c#">>, <<".net">>, <<"dotnet">> >>,
        category |-> "programming"],
       [canonical |-> <<"Spring", "Framework">>,
        aliases |-> << <<"spring", "boot">>, <<"spring", "mvc">> >>,
        category |-> "frameworks"],
       [canonical |-> <<"Redis">>,
        aliases |-> <<>>,
        category |-> "databases"] >>

KnownConfidence == 95       \* confidence_score 0.95, in hundredths
UnknownConfidence == 70     \* confidence_score 0.7, in hundredths

\* The lookup tables of one normalizer.  A skill_info object is identified
\* by the lower-cased canonical name it was created under; both indexes
\* hold references to these objects.
NoTables == [alias |-> EmptyMap, canon |-> EmptyMap, infos |-> EmptyMap]

RECURSIVE MapAliases(_, _, _, _)
MapAliases(alias_to_canonical, aliases, ref, i) ==
    IF i > Len(aliases) THEN alias_to_canonical
    ELSE MapAliases(Put(alias_to_canonical, LowerStr(aliases[i]), ref), aliases, ref, i + 1)

RECURSIVE BuildFrom(_, _)
BuildFrom(tables, i) ==
    IF i > Len(SKILL_ALIASES) THEN tables
    ELSE LET skill_info == SKILL_ALIASES[i]
             ref == LowerStr(skill_info.canonical)
         IN BuildFrom([alias |-> MapAliases(Put(tables.alias, ref, ref),
                                            skill_info.aliases, ref, 1),
                       canon |-> Put(tables.canon, ref, ref),
                       infos |-> Put(tables.infos, ref, skill_info)],
                      i + 1)

_build_lookup_tables == BuildFrom(NoTables, 1)

DropEmptyWord(word) == word # ""
NotParenthetical(word) == word \notin ParentheticalWords

_clean_skill_name(skill) ==
    IF skill = <<>> THEN <<>>
    ELSE LET \* ^(proficient in|experience with|knowledge of)\s+
             s1 == IF Len(skill) >= 3 /\ LowerStr(SubSeq(skill, 1, 2)) \in QualifierPhrases
                   THEN SubSeq(skill, 3, Len(skill)) ELSE skill
             \* \s+(programming|development|framework|library|database)$
             s2 == IF Len(s1) >= 2 /\ Lower(s1[Len(s1)]) \in CategoryWords
                   THEN SubSeq(s1, 1, Len(s1) - 1) ELSE s1
             \* \s+\d+(\.\d+)*$
             s3 == IF Len(s2) >= 2 /\ s2[Len(s2)] \in VersionWords
                   THEN SubSeq(s2, 1, Len(s2) - 1) ELSE s2
             \* \s*\([^)]*\)\s*
             s4 == SelectSeq(s3, NotParenthetical)
             \* [.,;:!?]
             s5 == [i \in DOMAIN s4 |-> StripPunctuation(s4[i])]
         IN SelectSeq(s5, DropEmptyWord)

\* Pattern rules of _infer_skill_category over the lower-cased cleaned name:
\* the whole-name alternatives of each rule, and for the suffix and keyword
\* patterns the rules that each word of the model matches as a last word.
ProgNames == {<<"c">>, <<"r">>, <<"matlab">>, <<"scala">>, <<"kotlin">>, <<"swift">>, <<"perl">>, <<"shell">>}
FrameworkNames == {<<"spring">>, <<"hibernate">>, <<"laravel">>, <<"rails">>, <<"ember">>, <<"backbone">>}
DbNames == {<<"oracle">>, <<"cassandra">>, <<"neo4j">>, <<"influx">>, <<"elastic">>}
CloudNames == {<<"serverless">>, <<"lambda">>, <<"functions">>}
ToolNames == {<<"ide">>, <<"editor">>, <<"vim">>, <<"vscode">>, <<"intellij">>, <<"eclipse">>}
SoftSkillNames == {<<"teamwork">>, <<"collaboration">>, <<"analytical">>, <<"creative">>}

SuffixRules(word) ==
    CASE word = "framework" -> {"frameworks"}
      [] OTHER -> {}

PatternMatches(skill_lower, rule, names) ==
    \/ skill_lower \in names
    \/ skill_lower # <<>> /\ rule \in SuffixRules(skill_lower[Len(skill_lower)])

_infer_skill_category(skill) ==
    LET skill_lower == LowerStr(skill)
    IN IF PatternMatches(skill_lower, "programming", ProgNames) THEN "programming"
       ELSE IF PatternMatches(skill_lower, "frameworks", FrameworkNames) THEN "frameworks"
       ELSE IF PatternMatches(skill_lower, "databases", DbNames) THEN "databases"
       ELSE IF PatternMatches(skill_lower, "cloud", CloudNames) THEN "cloud"
       ELSE IF PatternMatches(skill_lower, "tools", ToolNames) THEN "tools"
       ELSE IF PatternMatches(skill_lower, "soft_skills", SoftSkillNames) THEN "soft_skills"
       ELSE IF PatternMatches(skill_lower, "certifications", {}) THEN "certifications"
       ELSE IF PatternMatches(skill_lower, "technical", {}) THEN "technical"
       ELSE "other"

SkillEntrySchema(name, canonical_name, aliases, category, confidence_score) ==
    [name |-> name, canonical_name |-> canonical_name, aliases |-> aliases,
     category |-> category, confidence_score |-> confidence_score]

normalize_skill(tables, raw_skill) ==
    LET cleaned_skill == _clean_skill_name(raw_skill)
        key == LowerStr(cleaned_skill)
    IN IF key \in DOMAIN tables.alias
       THEN LET skill_info == tables.infos[tables.alias[key]]
            IN SkillEntrySchema(raw_skill, skill_info.canonical, skill_info.aliases,
                                skill_info.category, KnownConfidence)
       ELSE SkillEntrySchema(raw_skill, TitleStr(cleaned_skill), <<>>,
                             _infer_skill_category(cleaned_skill), UnknownConfidence)

\* Python's order of strings, on the words that occur in canonical names
WordOrder == <<"C#", "Framework", "Kotlin", "Kt", "Net", "Py", "Python", "Redis", "Spring", "kotlin">>
WordRank(word) == CHOOSE i \in DOMAIN WordOrder : WordOrder[i] = word
CategoryRank(category) == CHOOSE i \in DOMAIN CategoryOrder : CategoryOrder[i] = category

RECURSIVE StrLess(_, _)
StrLess(a, b) ==
    IF a = <<>> THEN b # <<>>
    ELSE IF b = <<>> THEN FALSE
    ELSE IF Head(a) = Head(b) THEN StrLess(Tail(a), Tail(b))
    ELSE WordRank(Head(a)) < WordRank(Head(b))

\* the sort key (category value, canonical_name) of line 363
SortKeyLess(x, y) ==
    \/ CategoryRank(x.category) < CategoryRank(y.category)
    \/ /\ x.category = y.category
       /\ StrLess(x.canonical_name, y.canonical_name)

RECURSIVE InsertSorted(_, _)
InsertSorted(sorted, entry) ==
    IF sorted = <<>> THEN <<entry>>
    ELSE IF SortKeyLess(entry, Head(sorted)) THEN <<entry>> \o sorted
    ELSE <<Head(sorted)>> \o InsertSorted(Tail(sorted), entry)

RECURSIVE SortSkills(_)
SortSkills(skills) ==
    IF skills = <<>> THEN <<>>
    ELSE InsertSorted(SortSkills(SubSeq(skills, 1, Len(skills) - 1)), skills[Len(skills)])

NoSkills == [seen |-> {}, normalized_skills |-> <<>>]

\* a loop body that appends every entry, seen or not
DedupStepKeepsAll(tables, acc, raw_skill) ==
    IF raw_skill = <<>> THEN acc
    ELSE LET normalized == normalize_skill(tables, raw_skill)
         IN [seen |-> acc.seen \cup {LowerStr(normalized.canonical_name)},
             normalized_skills |-> Append(acc.normalized_skills, normalized)]

\* one iteration of the loop of normalize_skills_list (lines 350-360)
DedupStep(tables, acc, raw_skill) ==
    IF raw_skill = <<>> THEN acc
    ELSE LET normalized == normalize_skill(tables, raw_skill)
             canonical_key == LowerStr(normalized.canonical_name)
         IN IF canonical_key \notin acc.seen
            THEN [seen |-> acc.seen \cup {canonical_key},
                  normalized_skills |-> Append(acc.normalized_skills, normalized)]
            ELSE acc

RECURSIVE DedupFrom(_, _, _, _)
DedupFrom(tables, raw_skills, i, acc) ==
    IF i > Len(raw_skills) THEN acc
    ELSE DedupFrom(tables, raw_skills, i + 1, DedupStep(tables, acc, raw_skills[i]))

normalize_skills_list(tables, raw_skills) ==
    IF raw_skills = <<>> THEN <<>>
    ELSE SortSkills(DedupFrom(tables, raw_skills, 1, NoSkills).normalized_skills)

LowerAliases(skill_info) == {LowerStr(skill_info.aliases[i]) : i \in DOMAIN skill_info.aliases}

\* add_custom_alias, lines 522-535: update the skill_info or create it
UpdateOrCreateInfo(tables, canonical_name, alias, category) ==
    LET canonical_lower == LowerStr(canonical_name)
    IN IF canonical_lower \in DOMAIN tables.canon
       THEN LET ref == tables.canon[canonical_lower]
            IN IF LowerStr(alias) \notin LowerAliases(tables.infos[ref])
               THEN [tables EXCEPT !.infos[ref].aliases = Append(@, alias)]
               ELSE tables
       ELSE [tables EXCEPT
                !.infos = Put(@, canonical_lower,
                              [canonical |-> canonical_name, aliases |-> <<alias>>,
                               category |-> category]),
                !.canon = Put(@, canonical_lower, canonical_lower)]

\* add_custom_alias, line 538: point the alias at the skill_info
UpdateAliasLookup(tables, canonical_name, alias) ==
    [tables EXCEPT !.alias = Put(@, LowerStr(alias), tables.canon[LowerStr(canonical_name)])]

add_custom_alias(tables, canonical_name, alias, category) ==
    UpdateAliasLookup(UpdateOrCreateInfo(tables, canonical_name, alias, category),
                      canonical_name, alias)

NoCall == [op |-> "none"]
NoPending == [active |-> FALSE]

SInit ==
    /\ sAlias = _build_lookup_tables.alias
    /\ sCanon = _build_lookup_tables.canon
    /\ sInfos = _build_lookup_tables.infos
    /\ sCalls = 0
    /\ sQueries = 0
    /\ sCall = NoCall
    /\ spc = "idle"
    /\ sPending = NoPending

SIdle == SInit

\* State of a PDF job that has not started
NoFile == [stored |-> None]
NoRead == [via |-> None]
NoExtracted == [made |-> FALSE]
NoPdfResult == [made |-> FALSE]
NoMetadata == [made |-> FALSE]

XIdle ==
    /\ xpc = "idle"
    /\ xFile = NoFile
    /\ xRead = NoRead
    /\ xText = <<>>
    /\ xWarnings = <<>>
    /\ xExtracted = NoExtracted
    /\ xResult = NoPdfResult
    /\ xProfile = NoMetadata

\* ---------------------------------------------------------------------
\* File store: FileService over EncryptionService
\* ---------------------------------------------------------------------

\* Chunk size for streaming encryption (1MB)
CHUNK_SIZE == 1024 * 1024
MAX_FILE_SIZE == 10 * 1024 * 1024

\* ALLOWED_EXTENSIONS split at "," and stripped. A string is a sequence of
\* its pieces, a "." being a piece of its own.
allowed_extensions_list == <<(<<"pdf">>), (<<"docx">>)>>

\* Bytes are a sequence of spans. A plain span is a range of the bytes of an
\* uploaded document; a token is the Fernet token (base64 text) of a span;
\* a corrupted span is bytes that were damaged on disk.
PlainSpan(tag, from, to) == [kind |-> "plain", tag |-> tag, from |-> from, to |-> to]
SpanLen(span) == span.to - span.from
Content(tag, size) == IF size = 0 THEN <<>> ELSE <<PlainSpan(tag, 0, size)>>
Corrupted(bytes) == <<[kind |-> "corrupted", of |-> bytes]>>

\* Length of the binary Fernet token of n plaintext bytes: version, timestamp,
\* IV, the PKCS7-padded AES-CBC ciphertext, HMAC. Its base64 text ends in "="
\* padding when that length is no multiple of 3.
TokenBinaryLen(n) == 1 + 8 + 16 + 16 * ((n \div 16) + 1) + 32
Base64Padded(n) == TokenBinaryLen(n) % 3 # 0
fernet_encrypt(chunk) ==
    [kind |-> "token", of |-> chunk, padded |-> Base64Padded(SpanLen(chunk))]

Min(a, b) == IF a <= b THEN a ELSE b
ContentSize(content) == IF content = <<>> THEN 0 ELSE SpanLen(content[1])
NumChunks(size) == (size + CHUNK_SIZE - 1) \div CHUNK_SIZE

\* source.read(CHUNK_SIZE) until it returns nothing
ReadChunks(content) ==
    [i \in 1..NumChunks(ContentSize(content)) |->
        PlainSpan(content[1].tag, (i - 1) * CHUNK_SIZE,
                  Min(i * CHUNK_SIZE, ContentSize(content)))]

_encrypt_stream(content) ==
    LET chunks == ReadChunks(content)
    IN  [i \in 1..Len(chunks) |-> fernet_encrypt(chunks[i])]

\* base64.urlsafe_b64decode in its default (non-strict) mode stops at the
\* first complete padding; what follows is not decoded.
IsToken(span) == span.kind = "token"
PaddingAt(bytes) == {i \in 1..Len(bytes) : IsToken(bytes[i]) /\ bytes[i].padded}
Base64Decoded(bytes) ==
    IF PaddingAt(bytes) = {} THEN bytes
    ELSE SubSeq(bytes, 1, CHOOSE i \in PaddingAt(bytes) : \A j \in PaddingAt(bytes) : i <= j)

InvalidToken == [ok |-> FALSE, data |-> <<>>]
\* Fernet.decrypt: the decoded bytes must be one token whose HMAC (its last
\* 32 bytes) signs everything before it.
fernet_decrypt(bytes) ==
    LET decoded == Base64Decoded(bytes)
    IN  IF Len(decoded) = 1 /\ IsToken(decoded[1])
        THEN [ok |-> TRUE, data |-> <<decoded[1].of>>]
        ELSE InvalidToken

Paths == {"full", "tmp", "enc", "decrypt_tmp"}
Absent == [exists |-> FALSE, bytes |-> <<>>]
FileOf(bytes) == [exists |-> TRUE, bytes |-> bytes]
EmptyDisk == [path \in Paths |-> Absent]
Unlink(disk, path) == [disk EXCEPT ![path] = Absent]
Rename(disk, from, to) == [disk EXCEPT ![to] = disk[from], ![from] = Absent]

Returned(disk, value) == [disk |-> disk, kind |-> "returned", value |-> value, exc |-> None]
RaisedFrom(disk, exc) == [disk |-> disk, kind |-> "raised", value |-> <<>>, exc |-> exc]

\* encrypt_file: io_error is a failure of the write into the target
encrypt_file(disk, source_path, target_path, io_error) ==
    IF ~disk[source_path].exists THEN RaisedFrom(disk, "EncryptionError")
    ELSE IF io_error
         THEN RaisedFrom(Unlink(disk, target_path), "EncryptionError")
         ELSE Returned([disk EXCEPT ![target_path] =
                           FileOf(_encrypt_stream(disk[source_path].bytes))], <<>>)

decrypt_file(disk, source_path, target_path) ==
    IF ~disk[source_path].exists THEN RaisedFrom(disk, "EncryptionError")
    ELSE LET decrypted == fernet_decrypt(disk[source_path].bytes)
         IN  IF decrypted.ok
             THEN Returned([disk EXCEPT ![target_path] = FileOf(decrypted.data)], <<>>)
             ELSE RaisedFrom(Unlink(disk, target_path), "EncryptionError")

store_file(disk, file_content, io_error) ==
    LET written == [disk EXCEPT !["tmp"] = FileOf(file_content)]
        encrypted == encrypt_file(written, "tmp", "enc", io_error)
    IN  IF encrypted.kind = "returned"
        THEN Unlink(Rename(encrypted.disk, "enc", "full"), "tmp")
        ELSE Rename(Unlink(encrypted.disk, "enc"), "tmp", "full")

ReadEncryptedFile(disk, file_path) ==
    IF ~disk[file_path].exists THEN RaisedFrom(disk, "FileNotFoundError")
    ELSE LET decrypted == decrypt_file(disk, file_path, "decrypt_tmp")
         IN  IF decrypted.kind = "returned"
             THEN Returned(Unlink(decrypted.disk, "decrypt_tmp"),
                           decrypted.disk["decrypt_tmp"].bytes)
             ELSE Returned(decrypted.disk, decrypted.disk[file_path].bytes)

\* A file name is the sequence of its "."-separated parts.
FileExtension(filename) ==
    <<".", Lower(filename[Len(filename)])>>

InList(x, list) == \E i \in 1..Len(list) : list[i] = x

validate_file_type(filename) ==
    IF filename = <<"">> THEN FALSE
    ELSE InList(FileExtension(filename), allowed_extensions_list)

validate_file_size(file_size) == 0 < file_size /\ file_size <= MAX_FILE_SIZE

NoReadResult == [kind |-> "none"]
NoUpload == [status |-> 0]

FIdle ==
    /\ fDisk = EmptyDisk
    /\ fOriginal = <<>>
    /\ fResult = NoReadResult
    /\ fUpload = NoUpload
    /\ fOps = 0

\* ---------------------------------------------------------------------
\* DOCX experience entries: DOCXExtractor._parse_experience_entry
\* ---------------------------------------------------------------------

\* A line is the sequence of its blank-separated words.
MonthWords == {"Jan", "Dec"}
YearWords == {"2020", "2023"}
DashWords == {"-"}
PresentWords == {"Present"}
NumericDateWords == {"1/6/2020"}

\* the group (jan|feb|...|dec) of the first date pattern captures the three
\* letters only
MonthGroup(word) == word

FirstOf(indices) == CHOOSE i \in indices : \A j \in indices : i <= j

MonthYearAt(text) ==
    {i \in 1..(Len(text) - 1) : text[i] \in MonthWords /\ text[i + 1] \in YearWords}
NumericDateAt(text) == {i \in 1..Len(text) : text[i] \in NumericDateWords}
YearRangeAt(text) ==
    {i \in 1..(Len(text) - 2) :
        text[i] \in YearWords /\ text[i + 1] \in DashWords /\ text[i + 2] \in YearWords}
OpenRangeAt(text) ==
    {i \in 1..(Len(text) - 2) :
        text[i] \in YearWords /\ text[i + 1] \in DashWords /\ text[i + 2] \in PresentWords}

\* re.findall returns the groups of a pattern that has one, the whole match
\* of a pattern that has none; _extract_dates returns the first item of the
\* first pattern that matches (<<>> for None).
_extract_dates(text) ==
    IF MonthYearAt(text) # {} THEN <<MonthGroup(text[FirstOf(MonthYearAt(text))])>>
    ELSE IF NumericDateAt(text) # {} THEN <<text[FirstOf(NumericDateAt(text))]>>
    ELSE IF YearRangeAt(text) # {}
         THEN SubSeq(text, FirstOf(YearRangeAt(text)), FirstOf(YearRangeAt(text)) + 2)
    ELSE IF OpenRangeAt(text) # {} THEN <<text[FirstOf(OpenRangeAt(text)) + 2]>>
    ELSE <<>>

\* the class [\u2022\-\*\+]; "u2022" stands for the bullet character
BulletMarkers == {"u2022", "-", "*", "+"}
ResponsibilityCues ==
    <<"developed", "managed", "led", "built", "implemented", "improved", "collaborated">>

\* line.lower().startswith(cue): the cue the lower-cased first word starts with
CueStarting(word) ==
    CASE word \in {"Led", "Ledger"} -> "led"
      [] word \in {"Managed"} -> "managed"
      [] OTHER -> None

IsBulletLine(line) == line[1] \in BulletMarkers
StartsWithCue(line) == CueStarting(line[1]) \in SeqToSet(ResponsibilityCues)
IsResponsibilityLine(line) == IsBulletLine(line) \/ StartsWithCue(line)
IsTitleLine(line) == ~IsResponsibilityLine(line)
CleanBullet(line) == IF IsBulletLine(line) THEN Tail(line) ELSE line
NonEmptyLine(line) == line # <<>>

WordAt(line, words) == {i \in 1..Len(line) : line[i] \in words}
InnerWordAt(line, words) == {i \in 2..(Len(line) - 1) : line[i] \in words}
Before(line, i) == SubSeq(line, 1, i - 1)
After(line, i) == SubSeq(line, i + 1, Len(line))

NoEntry == [made |-> FALSE]
ExperienceEntry(company, title, duration, responsibilities) ==
    [made |-> TRUE, company |-> company, title |-> title, duration |-> duration,
     responsibilities |-> responsibilities]

DatedLines(lines) == {i \in 1..Len(lines) : _extract_dates(lines[i]) # <<>>}

TitleAndCompany(title_lines) ==
    LET first_line == title_lines[1]
    IN  IF WordAt(first_line, {"|"}) # {}
        THEN <<Before(first_line, FirstOf(WordAt(first_line, {"|"}))),
               After(first_line, FirstOf(WordAt(first_line, {"|"})))>>
        ELSE IF InnerWordAt(first_line, {"-"}) # {}
        THEN <<Before(first_line, FirstOf(InnerWordAt(first_line, {"-"}))),
               After(first_line, FirstOf(InnerWordAt(first_line, {"-"})))>>
        ELSE IF WordAt(first_line, {","}) # {} /\ _extract_dates(first_line) = <<>>
        THEN <<Before(first_line, FirstOf(WordAt(first_line, {","}))),
               After(first_line, FirstOf(WordAt(first_line, {","})))>>
        ELSE <<first_line,
               IF Len(title_lines) > 1 /\ _extract_dates(title_lines[2]) = <<>>
               THEN title_lines[2] ELSE <<>> >>

_parse_experience_entry(lines) ==
    IF lines = <<>> THEN NoEntry
    ELSE
    LET title_lines == SelectSeq(lines, IsTitleLine)
        marked == SelectSeq(lines, IsResponsibilityLine)
        responsibility_lines ==
            SelectSeq([i \in 1..Len(marked) |-> CleanBullet(marked[i])], NonEmptyLine)
        duration ==
            IF title_lines # <<>> /\ DatedLines(lines) # {}
            THEN _extract_dates(lines[FirstOf(DatedLines(lines))]) ELSE <<>>
        named == IF title_lines # <<>> THEN TitleAndCompany(title_lines) ELSE <<(<<>>), (<<>>)>>
    IN  IF named[2] # <<>> \/ named[1] # <<>> \/ responsibility_lines # <<>>
        THEN ExperienceEntry(named[2], named[1], duration, responsibility_lines)
        ELSE NoEntry

EIdle ==
    /\ eEntry = <<>>
    /\ eParsed = NoEntry
    /\ epc = "idle"

\* ---------------------------------------------------------------------
\* Extraction confidence: _calculate_confidence_score of both extractors
\* ---------------------------------------------------------------------

\* Scores are exact decimals, held in thousandths (0.2 is 200).
\* Only the truth value of a field is used: an absent key (None) and an
\* empty value are both <<>>.
Truthy(value) == value # <<>>
ContactEmail(extracted) ==
    IF "email" \in DOMAIN extracted.contact THEN extracted.contact.email ELSE <<>>

Award(present, points) == IF present THEN points ELSE 0

docx_calculate_confidence_score(extracted) ==
    LET score == Award(Truthy(ContactEmail(extracted)), 200)
                 + Award(Truthy(extracted.summary), 100)
                 + Award(Truthy(extracted.experience), 300)
                 + Award(Truthy(extracted.education), 200)
                 + Award(Truthy(extracted.skills), 200)
    IN  Min(score, 1000)

PdfRawScore(extracted) ==
    Award(Truthy(ContactEmail(extracted)), 150)
    + Award(Truthy(extracted.summary), 100)
    + Award(Truthy(extracted.experience), 200)
    + Award(Truthy(extracted.education), 150)
    + Award(Truthy(extracted.skills), 100)

PdfScoreUndiscounted(extracted) == Min(PdfRawScore(extracted), 1000)

pdf_calculate_confidence_score(extracted) ==
    Min((PdfRawScore(extracted) * 8) \div 10, 800)

\* a score that was not computed yet, and a computed score in thousandths
Unscored == [scored |-> FALSE]
Scored(score) == [scored |-> TRUE, score |-> score]
NoContent == [scored |-> FALSE]

CIdle ==
    /\ cExtracted = NoContent
    /\ cDocx = Unscored
    /\ cPdf = Unscored

(***************************************************************************)
(* Section lists of an extractor's output and their transformation          *)
(* (docx_extractor.py, pdf_extractor.py, profile_validator.py)              *)
(***************************************************************************)
\* A Python value with its type: isinstance(value, dict) and
\* isinstance(value, str) read the tag.
PyStr(text) == [type |-> "str", text |-> text]
PyDict(fields) == [type |-> "dict", fields |-> fields]
IsPyDict(value) == value.type = "dict"
IsPyStr(value) == value.type = "str"

\* len(item) of the achievement lines used below
ItemLen(item) ==
    CASE item = <<"MVP">> -> 3
      [] item = <<"Employee", "of", "the", "Year", "2021">> -> 25
      [] OTHER -> 12

\* DOCXExtractor._extract_achievements: the stripped items longer than five
\* characters, as strings
docx_long_enough(item) == item # <<>> /\ ItemLen(item) > 5
docx_extract_achievements(items) ==
    LET kept == SelectSeq(items, docx_long_enough)
    IN  [i \in 1..Len(kept) |-> PyStr(kept[i])]

\* PDFExtractor._extract_achievements_heuristic: the stripped items of five
\* to two hundred characters, at most ten of them, as strings
pdf_long_enough(item) == item # <<>> /\ 5 <= ItemLen(item) /\ ItemLen(item) <= 200
pdf_extract_achievements_heuristic(items) ==
    LET kept == SelectSeq(items, pdf_long_enough)
    IN  [i \in 1..Min(Len(kept), 10) |-> PyStr(kept[i])]

\* _normalize_output of either extractor: the seven sections of the result
NormalizedSections(extracted) ==
    [experience |-> extracted.experience,
     education |-> extracted.education,
     skills |-> extracted.skills,
     projects |-> extracted.projects,
     achievements |-> extracted.achievements]

ListSections == {"experience", "education", "skills", "projects", "achievements"}

\* ProfileValidator._extract_experience_section, _extract_education_section,
\* _extract_projects_section, _extract_achievements_section: one entry per
\* item that is a dict
DictEntries(section_data) == SelectSeq(section_data, IsPyDict)

\* ProfileValidator._extract_skills_section: one entry per item that is a
\* string or a dict
IsStrOrDict(value) == IsPyStr(value) \/ IsPyDict(value)
SkillEntries(skills_data) == SelectSeq(skills_data, IsStrOrDict)

_extract_skills_section(skills_data) == SkillEntries(skills_data)
_extract_experience_section(experience_data) == DictEntries(experience_data)
_extract_education_section(education_data) == DictEntries(education_data)
_extract_projects_section(projects_data) == DictEntries(projects_data)
_extract_achievements_section(achievements_data) == DictEntries(achievements_data)

\* ProfileValidator._transform_parser_output: the list sections of the
\* candidate profile
TransformSections(sections) ==
    [experience |-> _extract_experience_section(sections.experience),
     education |-> _extract_education_section(sections.education),
     skills |-> _extract_skills_section(sections.skills),
     projects |-> _extract_projects_section(sections.projects),
     achievements |-> _extract_achievements_section(sections.achievements)]

NoSectionLists == [made |-> FALSE]

TIdle ==
    /\ tpc = "idle"
    /\ tMethod = "none"
    /\ tSections = NoSectionLists
    /\ tProfile = NoSectionLists

NIdle == FIdle /\ EIdle /\ CIdle /\ TIdle

VInit ==
    /\ vpc = "idle"
    /\ vEntry = None
    /\ vArg = ArgOther("none")
    /\ vStrict = FALSE
    /\ vData = NoData
    /\ vResult = NoResult

PIdle ==
    /\ ppc = "idle"
    /\ pReq = None
    /\ pType = None
    /\ pTrace = "unset"
    /\ pExc = "none"
    /\ pResult = None
    /\ pMetrics = <<>>
    /\ pResponse = None

DIdle ==
    /\ dpc = "idle"
    /\ dDoc = <<>>
    /\ dParas = <<>>
    /\ dCursor = 0
    /\ dCurrent = None
    /\ dSections = NoSections
    /\ dContent = NoTexts

LIdle ==
    /\ lLines = <<>>
    /\ lCursor = 0
    /\ lCurrent = None
    /\ lSections = NoSections

ValidatorInit == VInit /\ PIdle /\ DIdle /\ LIdle /\ SIdle /\ XIdle /\ NIdle

ValidatorNext ==
    \/ CallValidateProfile
    \/ CallValidateProfileJson
    \/ CallValidateParserOutput

ValidatorSpec == ValidatorInit /\ [][ValidatorNext]_vars

(***************************************************************************)
(* Properties of the validator                                              *)
(***************************************************************************)

\* The call was validate_profile, or validate_profile_json on text that
\* decodes to an object, and it has returned
CalledOnDict ==
    /\ vpc = "done"
    /\ \/ vEntry = "validate_profile" /\ vArg.kind = "dict"
       \/ vEntry = "validate_profile_json" /\ vArg.kind = "valid" /\ vArg.value.kind = "dict"

\* The dictionary as the caller passed it
InData == IF vEntry = "validate_profile" THEN vArg.data ELSE vArg.value.data

\* additional_sections has a prohibited key of its own
ContainsProhibitedKey(bag) == bag.t = "dict" /\ Lower(bag.k) \in prohibited_fields

\* A prohibited key at any depth, through dictionaries and lists
RECURSIVE ProhibitedAtAnyDepth(_)
ProhibitedAtAnyDepth(val) ==
    IF val.t = "dict" THEN Lower(val.k) \in prohibited_fields \/ ProhibitedAtAnyDepth(val.v)
    ELSE IF val.t = "list" THEN ProhibitedAtAnyDepth(val.v)
    ELSE FALSE

\* The version is absent, or a string the migration accepts
VersionAccepted(ver) ==
    \/ ver.k = "absent"
    \/ /\ ver.k = "str"
       /\ Len(ver.parts) >= 2
       /\ \A i \in DOMAIN ver.parts : ver.parts[i] >= 0
       /\ ver.parts[1] = PROFILE_SCHEMA_VERSION[1]
       /\ ver.parts[2] <= PROFILE_SCHEMA_VERSION[2]

\* The version is numeric with a different major or a greater minor component
VersionRefused(ver) ==
    /\ ver.k = "str"
    /\ Len(ver.parts) >= 2
    /\ \A i \in DOMAIN ver.parts : ver.parts[i] >= 0
    /\ \/ ver.parts[1] # PROFILE_SCHEMA_VERSION[1]
       \/ ver.parts[2] > PROFILE_SCHEMA_VERSION[2]

NoFieldDefect(data) == data.bad = {} /\ data.missing = {} /\ ~data.nested

\* Some entry of the errors list names the prohibited key of the bag
ReportsProhibited(errors, bag) ==
    \E i \in DOMAIN errors :
        \/ /\ errors[i].kind = "field"
           /\ errors[i].why = "prohibited"
           /\ errors[i].path = <<"additional_sections", bag.k>>
        \/ /\ errors[i].kind = "failed_to_clean"
           /\ \E j \in DOMAIN errors[i].inner :
                /\ errors[i].inner[j].why = "prohibited"
                /\ errors[i].inner[j].path = <<"additional_sections", bag.k>>

DemotedProhibited(warnings) ==
    \E i \in DOMAIN warnings :
        /\ warnings[i].kind = "removed"
        /\ warnings[i].err.kind = "field"
        /\ warnings[i].err.why = "prohibited"

\* C1 as stated: a profile whose additional_sections contains a prohibited
\* key is rejected in both modes, without a profile, with an error that
\* reports the prohibited field, and the violation is never a warning.
C1_AlwaysReported ==
    (CalledOnDict /\ ContainsProhibitedKey(InData.bag)) =>
        /\ ~vResult.is_valid
        /\ vResult.profile = NoProfile
        /\ ReportsProhibited(vResult.errors, InData.bag)
        /\ ~DemotedProhibited(vResult.warnings)

\* C1 amended: a profile whose additional_sections contains a prohibited
\* key is rejected in both modes, without a profile and without the
\* violation becoming a warning; the errors report the prohibited field when
\* the profile has no other defect (no field-level error, version accepted).
C1_PrivacyTerminal ==
    (CalledOnDict /\ ContainsProhibitedKey(InData.bag)) =>
        /\ ~vResult.is_valid
        /\ vResult.profile = NoProfile
        /\ ~DemotedProhibited(vResult.warnings)
        /\ (NoFieldDefect(InData) /\ VersionAccepted(InData.ver)) =>
               ReportsProhibited(vResult.errors, InData.bag)

C1_Witness ==
    /\ CalledOnDict
    /\ ~vStrict
    /\ InData.bag.t = "dict"
    /\ InData.bag.k = "Gender"
    /\ InData.bad = {"skills"}
    /\ ~vResult.is_valid
    /\ ReportsProhibited(vResult.errors, InData.bag)

\* C2 as stated: a profile returned as valid has no prohibited key at any
\* depth under additional_sections, dictionaries inside lists included.
C2_NoProhibitedAtAnyDepth ==
    (vpc = "done" /\ vResult.is_valid) =>
        ~ProhibitedAtAnyDepth(vResult.profile.additional_sections)

\* The profile is valid except that top-level field f holds a value of the
\* wrong type
ValidExceptField(data, f) ==
    /\ data.missing = {}
    /\ ~data.nested
    /\ ~ProhibitedAtAnyDepth(data.bag)
    /\ IF f = "schema_version"
       THEN data.ver = VerInt /\ data.bad = {}
       ELSE data.ver = VerStr(PROFILE_SCHEMA_VERSION) /\ data.bad = {f}

RemovalWarned(warnings, f) ==
    \E i \in DOMAIN warnings :
        /\ warnings[i].kind = "removed"
        /\ warnings[i].err.kind = "field"
        /\ warnings[i].err.loc = <<f>>

FieldReported(errors, f) ==
    \E i \in DOMAIN errors : errors[i].kind = "field" /\ errors[i].loc = <<f>>

LenientRemovesStrictFails(f) ==
    IF vStrict
    THEN /\ ~vResult.is_valid
         /\ vResult.profile = NoProfile
         /\ FieldReported(vResult.errors, f)
    ELSE /\ vResult.is_valid
         /\ f \notin vResult.profile.from_input
         /\ RemovalWarned(vResult.warnings, f)

\* C3 as stated: whichever top-level field holds the wrong type, lenient
\* validation succeeds with the field removed and warned about, and strict
\* validation fails with the field reported as an error and no profile.
C3_AnyTopLevelField ==
    \A f \in AllFields :
        (CalledOnDict /\ ValidExceptField(InData, f)) => LenientRemovesStrictFails(f)

\* C3 amended: the same, for every top-level field that has a default
\* (not extraction_method, source_file or metadata) other than schema_version.
C3_DefaultedTopLevelField ==
    \A f \in AllFields \ (RequiredFields \cup {"schema_version"}) :
        (CalledOnDict /\ ValidExceptField(InData, f)) => LenientRemovesStrictFails(f)

C3_Witness ==
    /\ CalledOnDict
    /\ ~vStrict
    /\ ValidExceptField(InData, "experience")
    /\ vResult.is_valid
    /\ RemovalWarned(vResult.warnings, "experience")

IncompatibleReported(errors) ==
    \E i \in DOMAIN errors : errors[i].kind = "incompatible"

IncompatibleWarned(warnings) ==
    \E i \in DOMAIN warnings :
        /\ warnings[i].kind = "removed"
        /\ warnings[i].err.kind = "incompatible"

\* C4 as stated: a version with a different major or a greater minor
\* component is refused: in strict mode the result is invalid with an
\* incompatible-schema error and no profile; in lenient mode the
\* incompatibility is in the result's errors or warnings.
C4_IncompatibleNeverDropped ==
    (CalledOnDict /\ VersionRefused(InData.ver)) =>
        IF vStrict
        THEN /\ ~vResult.is_valid
             /\ vResult.profile = NoProfile
             /\ IncompatibleReported(vResult.errors)
        ELSE IncompatibleReported(vResult.errors) \/ IncompatibleWarned(vResult.warnings)

VersioningWarnings(warnings) ==
    {i \in DOMAIN warnings : warnings[i].kind \in {"no_version", "migrated"}}

\* C5: a profile without schema_version gets the current version assigned
\* and exactly one versioning warning; a profile already at the current
\* version keeps it and gets no versioning warning.
C5_VersionAssignment ==
    CalledOnDict =>
        /\ InData.ver = VerAbsent =>
              /\ vData.ver = VerStr(PROFILE_SCHEMA_VERSION)
              /\ Cardinality(VersioningWarnings(vResult.warnings)) = 1
              /\ vResult.is_valid => vResult.profile.schema_version = PROFILE_SCHEMA_VERSION
        /\ InData.ver = VerStr(PROFILE_SCHEMA_VERSION) =>
              /\ vData.ver = VerStr(PROFILE_SCHEMA_VERSION)
              /\ VersioningWarnings(vResult.warnings) = {}

C5_Witness ==
    /\ CalledOnDict
    /\ InData.ver = VerAbsent
    /\ vResult.is_valid
    /\ vResult.warnings = <<NoVersionWarning>>
    /\ vData.ver = VerStr(PROFILE_SCHEMA_VERSION)

\* C6 as stated: every call of the three entry points returns a result, and
\* a failed result has a populated errors list.
C6_NeverRaises ==
    vpc = "done" =>
        /\ vResult.raised = "none"
        /\ ~vResult.is_valid => vResult.errors # <<>>

(***************************************************************************)
(* parser_service.py: ParserService.parse_resume                            *)
(***************************************************************************)

\* File name suffixes (already lower-cased by suffix.lower()) and what
\* mimetypes.guess_type returns for a name with that suffix
Suffixes == {".docx", ".pdf", ".txt", ".text", ".xlsx", ".html", ".doc", ".png", ""}

GuessType(suffix) ==
    CASE suffix = ".docx" -> "application/vnd.openxmlformats-officedocument.wordprocessingml.document"
      [] suffix = ".pdf" -> "application/pdf"
      [] suffix = ".txt" -> "text/plain"
      [] suffix = ".xlsx" -> "application/vnd.openxmlformats-officedocument.spreadsheetml.sheet"
      [] suffix = ".html" -> "text/html"
      [] suffix = ".doc" -> "application/msword"
      [] suffix = ".png" -> "image/png"
      [] OTHER -> None

\* The substring tests of lines 301-305 on those MIME types
MimeHasOpenXml(mime) ==
    mime \in {"application/vnd.openxmlformats-officedocument.wordprocessingml.document",
              "application/vnd.openxmlformats-officedocument.spreadsheetml.sheet"}
MimeHasPdf(mime) == mime = "application/pdf"
MimeHasText(mime) == mime \in {"text/plain", "text/html"}

\* The detection with 'txt' as the default of line 309
DetectDefaultsToTxt(suffix) ==
    IF suffix = ".docx" THEN "docx"
    ELSE IF suffix = ".pdf" THEN "pdf"
    ELSE IF suffix \in {".txt", ".text"} THEN "txt"
    ELSE LET mime_type == GuessType(suffix)
         IN IF mime_type # None /\ MimeHasOpenXml(mime_type) THEN "docx"
            ELSE IF mime_type # None /\ MimeHasPdf(mime_type) THEN "pdf"
            ELSE "txt"

\* _detect_file_type: the extension first, the MIME type of the name otherwise
_detect_file_type(suffix) ==
    IF suffix = ".docx" THEN "docx"
    ELSE IF suffix = ".pdf" THEN "pdf"
    ELSE IF suffix \in {".txt", ".text"} THEN "txt"
    ELSE LET mime_type == GuessType(suffix)
         IN IF mime_type # None /\ MimeHasOpenXml(mime_type) THEN "docx"
            ELSE IF mime_type # None /\ MimeHasPdf(mime_type) THEN "pdf"
            ELSE IF mime_type # None /\ MimeHasText(mime_type) THEN "txt"
            ELSE "unknown"

\* What the chosen extractor does: returns a result or raises
ExtractorOutcomes == {"ok", "ImportError", "FileNotFoundError", "ValueError"}

\* A request with its environment:
\*   has_path, has_id - which of file_path / resume_id the caller gave
\*   db        - what db.get_resume_file_path does: "found", "missing", "raise"
\*   exists    - resolved_path.exists()
\*   suffix    - resolved_path.suffix.lower()
\*   extractor - outcome of the extractor, if one is called
\*   output    - the dictionary the extractor returns, if it returns
Requests ==
    [has_path : BOOLEAN, has_id : BOOLEAN, db : {"found", "missing", "raise"},
     exists : BOOLEAN, suffix : Suffixes, extractor : ExtractorOutcomes,
     output : {ParserResult(TRUE, bad, phone_bad) :
                  bad \in {b \in SUBSET {"extraction_method", "warnings"} : Cardinality(b) <= MaxIssues},
                  phone_bad \in BOOLEAN}]

TraceId == "parse_trace"

\* ParsingJobResponse
NoError == [kind |-> "none", detail |-> None]
ParsingJobResponse(status, error, result) ==
    [status |-> status, error |-> error, result |-> result]

\* Events of the MetricsCollector that carry a trace id
ParseStartEvent(trace_id) == [event |-> "parse_start", trace_id |-> trace_id, error_type |-> None]
ParseSuccessEvent(trace_id) == [event |-> "parse_success", trace_id |-> trace_id, error_type |-> None]
ParseFailureEvent(trace_id, error_type) ==
    [event |-> "parse_failure", trace_id |-> trace_id, error_type |-> error_type]

\* The mock result of lines 149-166
TxtMockResult == ParserResult(TRUE, {}, FALSE)

PUnchangedLocals == UNCHANGED <<pReq, pType, pTrace, pResult, pMetrics>>

\* The caller invokes parse_resume
ParseStart ==
    /\ ppc = "idle"
    /\ \E req \in Requests : pReq' = req
    /\ ppc' = "resolve"
    /\ UNCHANGED <<pType, pTrace, pExc, pResult, pMetrics, pResponse>>
    /\ UNCHANGED <<vvars, dvars, lvars, svars, xvars, nvars>>

\* lines 72-103: resolve the file path
ResolvePath ==
    /\ ppc = "resolve"
    /\ IF pReq.has_path THEN
           /\ ppc' = "exists"
           /\ UNCHANGED <<pExc, pResponse>>
       ELSE IF pReq.has_id THEN
           IF pReq.db = "raise" THEN
               /\ pExc' = "ConnectionError"
               /\ ppc' = "except"
               /\ UNCHANGED pResponse
           ELSE IF pReq.db = "missing" THEN
               /\ pResponse' = ParsingJobResponse("failed",
                                   [kind |-> "resume_not_found", detail |-> None], None)
               /\ ppc' = "returned"
               /\ UNCHANGED pExc
           ELSE
               /\ ppc' = "exists"
               /\ UNCHANGED <<pExc, pResponse>>
       ELSE
           /\ pExc' = "ValueError"
           /\ ppc' = "except"
           /\ UNCHANGED pResponse
    /\ PUnchangedLocals
    /\ UNCHANGED <<vvars, dvars, lvars, svars, xvars, nvars>>

\* lines 106-118: the file must exist
CheckExists ==
    /\ ppc = "exists"
    /\ IF ~pReq.exists THEN
           /\ pResponse' = ParsingJobResponse("failed",
                               [kind |-> "file_not_found", detail |-> None], None)
           /\ ppc' = "returned"
       ELSE
           /\ ppc' = "detect"
           /\ UNCHANGED pResponse
    /\ UNCHANGED pExc
    /\ PUnchangedLocals
    /\ UNCHANGED <<vvars, dvars, lvars, svars, xvars, nvars>>

\* lines 121-129: detect the type and record the start
DetectAndRecordStart ==
    /\ ppc = "detect"
    /\ pType' = _detect_file_type(pReq.suffix)
    /\ pTrace' = TraceId
    /\ pMetrics' = Append(pMetrics, ParseStartEvent(TraceId))
    /\ ppc' = "route"
    /\ UNCHANGED <<pReq, pExc, pResult, pResponse>>
    /\ UNCHANGED <<vvars, dvars, lvars, svars, xvars, nvars>>

\* lines 141-180: route to the extractor
RouteToExtractor ==
    /\ ppc = "route"
    /\ IF pType \in {"docx", "pdf"} THEN
           IF pReq.extractor = "ok" THEN
               /\ pResult' = [method |-> IF pType = "docx" THEN "docx_deterministic" ELSE "pdf_heuristic",
                              output |-> pReq.output]
               /\ ppc' = "validate"
               /\ UNCHANGED <<pExc, pResponse>>
           ELSE
               /\ pExc' = pReq.extractor
               /\ ppc' = "except"
               /\ UNCHANGED <<pResult, pResponse>>
       ELSE IF pType = "txt" THEN
           /\ pResult' = [method |-> "txt_simple", output |-> TxtMockResult]
           /\ ppc' = "validate"
           /\ UNCHANGED <<pExc, pResponse>>
       ELSE
           /\ pResponse' = ParsingJobResponse("failed",
                               [kind |-> "unsupported_file_type", detail |-> pType], None)
           /\ ppc' = "returned"
           /\ UNCHANGED <<pExc, pResult>>
    /\ UNCHANGED <<pReq, pType, pTrace, pMetrics>>
    /\ UNCHANGED <<vvars, dvars, lvars, svars, xvars, nvars>>

\* lines 183-223: validate the output, add the schema metadata and record
\* the success
ValidateAndRecordSuccess ==
    /\ ppc = "validate"
    /\ LET validation_result == validate_parser_output(pResult.output).result
       IN pResult' = [method |-> pResult.method, output |-> pResult.output,
                      schema_validated |-> validation_result.is_valid,
                      validation_warnings |-> Len(validation_result.errors)]
    /\ pMetrics' = Append(pMetrics, ParseSuccessEvent(pTrace))
    /\ ppc' = "respond"
    /\ UNCHANGED <<pReq, pType, pTrace, pExc, pResponse>>
    /\ UNCHANGED <<vvars, dvars, lvars, svars, xvars, nvars>>

\* lines 238-246: the completed response
RespondCompleted ==
    /\ ppc = "respond"
    /\ pResponse' = ParsingJobResponse("completed", NoError, pResult)
    /\ ppc' = "returned"
    /\ UNCHANGED pExc
    /\ PUnchangedLocals
    /\ UNCHANGED <<vvars, dvars, lvars, svars, xvars, nvars>>

\* A handler that records no failure event
HandleExceptionSilently ==
    /\ ppc = "except"
    /\ pResponse' = ParsingJobResponse("failed", [kind |-> "exception", detail |-> pExc], None)
    /\ ppc' = "returned"
    /\ UNCHANGED <<pReq, pType, pTrace, pExc, pResult, pMetrics>>
    /\ UNCHANGED <<vvars, dvars, lvars, svars, xvars, nvars>>

\* lines 248-276: the except clause of parse_resume
HandleException ==
    /\ ppc = "except"
    /\ pMetrics' = IF pTrace # "unset"
                   THEN Append(pMetrics, ParseFailureEvent(pTrace, pExc))
                   ELSE pMetrics
    /\ pResponse' = ParsingJobResponse("failed", [kind |-> "exception", detail |-> pExc], None)
    /\ ppc' = "returned"
    /\ UNCHANGED <<pReq, pType, pTrace, pExc, pResult>>
    /\ UNCHANGED <<vvars, dvars, lvars, svars, xvars, nvars>>

VIdle == VInit

ParserInit == VIdle /\ PIdle /\ DIdle /\ LIdle /\ SIdle /\ XIdle /\ NIdle

ParserNext ==
    \/ ParseStart
    \/ ResolvePath
    \/ CheckExists
    \/ DetectAndRecordStart
    \/ RouteToExtractor
    \/ ValidateAndRecordSuccess
    \/ RespondCompleted
    \/ HandleException

ParserSpec == ParserInit /\ [][ParserNext]_vars

(***************************************************************************)
(* Properties of parse_resume                                               *)
(***************************************************************************)

EventsOf(event, trace_id) ==
    {i \in DOMAIN pMetrics : pMetrics[i].event = event /\ pMetrics[i].trace_id = trace_id}

\* C7: when a step of parse_resume raises, the call returns a failed
\* response naming the error kind; if a trace id was issued, exactly one
\* parse_failure with that trace id and error kind was recorded and no
\* parse_success.
C7_ExceptionBecomesFailure ==
    (ppc = "returned" /\ pExc # "none") =>
        /\ pResponse.status = "failed"
        /\ pResponse.error = [kind |-> "exception", detail |-> pExc]
        /\ pResponse.result = None
        /\ pTrace # "unset" =>
              /\ Cardinality(EventsOf("parse_failure", pTrace)) = 1
              /\ \A i \in EventsOf("parse_failure", pTrace) : pMetrics[i].error_type = pExc
              /\ EventsOf("parse_success", pTrace) = {}
        /\ pTrace = "unset" => pMetrics = <<>>

C7_Witness ==
    /\ ppc = "returned"
    /\ pExc = "ImportError"
    /\ pTrace = TraceId
    /\ pResponse.status = "failed"
    /\ Cardinality(EventsOf("parse_failure", pTrace)) = 1

ScanSections == {"experience", "skills"}

\* A paragraph of the document:
\*   empty  - paragraph.text.strip() is empty
\*   match  - first section of SECTION_PATTERNS with a pattern found in the
\*            text, None when no pattern is found
\*   styled - the text has at most 50 characters and is bold or upper-case
RawParagraphs ==
    {[empty |-> TRUE, match |-> None, styled |-> FALSE]}
    \cup [empty : {FALSE}, match : ScanSections \cup {None}, styled : BOOLEAN]

RECURSIVE SeqsUpTo(_, _)
SeqsUpTo(S, n) ==
    IF n = 0 THEN {<<>>}
    ELSE LET shorter == SeqsUpTo(S, n - 1)
         IN shorter \cup {Append(q, x) : q \in {r \in shorter : Len(r) = n - 1}, x \in S}

\* _is_likely_header
_is_likely_header(paragraph) == paragraph.styled /\ paragraph.match # None

\* _extract_paragraphs: the non-empty paragraphs, each with its position in
\* document.paragraphs (enumerate counts from 0)
RECURSIVE ExtractFrom(_, _)
ExtractFrom(doc, i) ==
    IF i > Len(doc) THEN <<>>
    ELSE IF doc[i].empty THEN ExtractFrom(doc, i + 1)
    ELSE <<[index |-> i - 1, match |-> doc[i].match,
            is_header |-> _is_likely_header(doc[i])]>> \o ExtractFrom(doc, i + 1)

_extract_paragraphs(doc) == ExtractFrom(doc, 1)

OpenSection(sections, name) ==
    IF sections[name].present THEN sections
    ELSE [sections EXCEPT ![name] = [present |-> TRUE, idx |-> <<>>]]

AppendTo(sections, name, i) ==
    [sections EXCEPT ![name].idx = Append(@, i)]

\* The loop body with a bucket that is emptied whenever its header is seen
DetectSectionsStepClearing(sections, current, para) ==
    IF para.match # None /\ para.is_header THEN
        [sections |-> [sections EXCEPT ![para.match] = [present |-> TRUE, idx |-> <<>>]],
         current |-> para.match]
    ELSE IF current # None THEN
        [sections |-> AppendTo(sections, current, para.index), current |-> current]
    ELSE [sections |-> sections, current |-> current]

\* _detect_sections, lines 197-219: the body of the loop for one paragraph
DetectSectionsStep(sections, current, para) ==
    IF para.match # None /\ para.is_header THEN
        [sections |-> OpenSection(sections, para.match), current |-> para.match]
    ELSE IF current # None THEN
        [sections |-> AppendTo(sections, current, para.index), current |-> current]
    ELSE [sections |-> sections, current |-> current]

\* extract, line 109: the paragraphs of the document are listed
DocxExtractParagraphs ==
    /\ dpc = "extract"
    /\ dParas' = _extract_paragraphs(dDoc)
    /\ dpc' = "scan"
    /\ UNCHANGED <<dDoc, dCursor, dCurrent, dSections, dContent>>
    /\ UNCHANGED <<vvars, pvars, lvars, svars, xvars, nvars>>

\* _detect_sections: one iteration of the loop
DocxScanParagraph ==
    /\ dpc = "scan"
    /\ dCursor < Len(dParas)
    /\ LET r == DetectSectionsStep(dSections, dCurrent, dParas[dCursor + 1])
       IN /\ dSections' = r.sections
          /\ dCurrent' = r.current
    /\ dCursor' = dCursor + 1
    /\ UNCHANGED <<dpc, dDoc, dParas, dContent>>
    /\ UNCHANGED <<vvars, pvars, lvars, svars, xvars, nvars>>

\* _detect_sections: the loop ends and the dictionary is returned
DocxScanReturn ==
    /\ dpc = "scan"
    /\ dCursor = Len(dParas)
    /\ dpc' = "done"
    /\ UNCHANGED <<dDoc, dParas, dCursor, dCurrent, dSections, dContent>>
    /\ UNCHANGED <<vvars, pvars, lvars, svars, xvars, nvars>>

\* The text of a content unit, identified by the document paragraph it is
\* the text of
TextOf(para) == para.index

\* _extract_content, lines 249-250: the texts joined for one section
SectionTexts(paragraphs, para_indices) ==
    LET valid_indices ==
            SelectSeq(para_indices, LAMBDA i : 0 <= i /\ i < Len(paragraphs))
    IN  [k \in DOMAIN valid_indices |-> TextOf(paragraphs[valid_indices[k] + 1])]

\* extract, line 113: _extract_content reads the sections back
DocxExtractContent ==
    /\ dpc = "done"
    /\ dContent' = [name \in SectionNames |->
                       IF dSections[name].present
                       THEN SectionTexts(dParas, dSections[name].idx) ELSE <<>>]
    /\ dpc' = "extracted"
    /\ UNCHANGED <<dDoc, dParas, dCursor, dCurrent, dSections>>
    /\ UNCHANGED <<vvars, pvars, lvars, svars, xvars, nvars>>

DocxInit ==
    /\ VIdle /\ PIdle /\ LIdle /\ SIdle /\ XIdle /\ NIdle
    /\ dpc = "extract"
    /\ dDoc \in SeqsUpTo(RawParagraphs, MaxUnits)
    /\ dParas = <<>>
    /\ dCursor = 0
    /\ dCurrent = None
    /\ dSections = NoSections
    /\ dContent = NoTexts

DocxNext ==
    \/ DocxExtractParagraphs
    \/ DocxScanParagraph
    \/ DocxScanReturn
    \/ DocxExtractContent

DocxSpec == DocxInit /\ [][DocxNext]_vars

\* Positions in dParas, among the first n, of the header candidates
HeadersBefore(paras, n) == {j \in 1..n : paras[j].is_header}

\* Section of the most recent header candidate before position j, None if
\* there is none
OpenSectionAt(paras, j) ==
    LET H == HeadersBefore(paras, j - 1)
    IN IF H = {} THEN None
       ELSE paras[CHOOSE h \in H : \A g \in H : g <= h].match

\* Positions among the first n that belong to section name
MembersOf(paras, n, name) ==
    {j \in 1..n : ~paras[j].is_header /\ OpenSectionAt(paras, j) = name}

RECURSIVE IndicesInOrder(_, _, _)
IndicesInOrder(paras, members, j) ==
    IF j > Len(paras) THEN <<>>
    ELSE IF j \in members THEN <<paras[j].index>> \o IndicesInOrder(paras, members, j + 1)
    ELSE IndicesInOrder(paras, members, j + 1)

\* C9: after any number of paragraphs processed in document order, each
\* section holds exactly the non-header units whose most recent preceding
\* header candidate is a header of that section, in order; units before the
\* first header are in no section; a section is a key exactly when one of
\* its headers was seen, and a recurring header keeps the bucket.
C9_DocxSectionScan ==
    dpc \in {"scan", "done"} =>
        \A name \in SectionNames :
            /\ dSections[name].idx =
                  IndicesInOrder(dParas, MembersOf(dParas, dCursor, name), 1)
            /\ dSections[name].present <=>
                  \E h \in HeadersBefore(dParas, dCursor) : dParas[h].match = name
            /\ \A j \in 1..dCursor :
                  OpenSectionAt(dParas, j) = None =>
                      \A other \in SectionNames :
                          \A k \in DOMAIN dSections[other].idx :
                              dSections[other].idx[k] # dParas[j].index

\* A header of a section recurs after content was stored under it, and the
\* content is still there together with what followed the second header
C9_Witness ==
    /\ dpc = "done"
    /\ Len(dParas) = 4
    /\ dParas[1].is_header /\ dParas[1].match = "skills"
    /\ ~dParas[2].is_header
    /\ dParas[3].is_header /\ dParas[3].match = "skills"
    /\ ~dParas[4].is_header
    /\ Len(dSections["skills"].idx) = 2

(***************************************************************************)
(* pdf_extractor.py: _detect_sections_heuristic                             *)
(***************************************************************************)

\* A line of the cleaned text:
\*   match - first section of SECTION_PATTERNS with a pattern found in the
\*           lower-cased line, None when no pattern is found
\*   short - the line has at most 5 whitespace-separated tokens
Lines == [match : ScanSections \cup {None}, short : BOOLEAN]

\* lines 296-302: the section a line is a header of, None for other lines
DetectedSection(line) == IF line.match # None /\ line.short THEN line.match ELSE None

\* _detect_sections_heuristic, lines 292-316: the body of the loop for the
\* line at 0-based position i of n lines
DetectSectionsHeuristicStep(sections, current, line, i, n) ==
    IF DetectedSection(line) # None THEN
        [sections |-> OpenSection(sections, DetectedSection(line)),
         current |-> DetectedSection(line)]
    ELSE IF current # None /\ i < n - 1 THEN
        [sections |-> AppendTo(sections, current, i), current |-> current]
    ELSE [sections |-> sections, current |-> current]

\* _detect_sections_heuristic: one iteration of the loop
PdfScanLine ==
    /\ lCursor < Len(lLines)
    /\ LET r == DetectSectionsHeuristicStep(lSections, lCurrent, lLines[lCursor + 1],
                                            lCursor, Len(lLines))
       IN /\ lSections' = r.sections
          /\ lCurrent' = r.current
    /\ lCursor' = lCursor + 1
    /\ UNCHANGED lLines
    /\ UNCHANGED <<vvars, pvars, dvars, svars, xvars, nvars>>

PdfInit ==
    /\ VIdle /\ PIdle /\ DIdle /\ SIdle /\ XIdle /\ NIdle
    /\ lLines \in SeqsUpTo(Lines, MaxUnits)
    /\ lCursor = 0
    /\ lCurrent = None
    /\ lSections = NoSections

PdfNext == PdfScanLine

PdfSpec == PdfInit /\ [][PdfNext]_vars

\* Section of the most recent header line before position j, None if none
OpenPdfSectionAt(lines, j) ==
    LET H == {h \in 1..(j - 1) : DetectedSection(lines[h]) # None}
    IN IF H = {} THEN None
       ELSE DetectedSection(lines[CHOOSE h \in H : \A g \in H : g <= h])

\* C10 as stated: when the scan has ended, every non-header line that
\* follows a header candidate is in the section that was open at that line,
\* the last line of the document included.
C10_PdfAppendsThroughLastLine ==
    lCursor = Len(lLines) =>
        \A j \in 1..Len(lLines) :
            (DetectedSection(lLines[j]) = None /\ OpenPdfSectionAt(lLines, j) # None) =>
                \E k \in DOMAIN lSections[OpenPdfSectionAt(lLines, j)].idx :
                    lSections[OpenPdfSectionAt(lLines, j)].idx[k] = j - 1

(***************************************************************************)
(* Calls on one SkillsNormalizer                                            *)
(***************************************************************************)
\* Raw skill strings a caller passes
RawSkills ==
    { <<"Python">>, <<"py">>, <<"python", "3">>, <<".NET">>,
      <<"Spring", "Framework">>, <<"spring", "boot">>, <<"Kotlin">>, <<"kt">>,
      <<"proficient", "in", "Redis", "(cache)">>, <<>> }

\* Arguments of add_custom_alias
CustomCanonicals == {<<"kotlin">>, <<"Python">>}
CustomAliases == {<<"kt">>, <<"py">>}
CustomCategories == {"other"}

Tables == [alias |-> sAlias, canon |-> sCanon, infos |-> sInfos]

SetTables(tables) ==
    /\ sAlias' = tables.alias
    /\ sCanon' = tables.canon
    /\ sInfos' = tables.infos

CallNormalizeSkill ==
    \E raw_skill \in RawSkills :
        /\ sQueries < MaxQueries
        /\ sQueries' = sQueries + 1
        /\ sCall' = [op |-> "normalize_skill", input |-> raw_skill,
                     output |-> normalize_skill(Tables, raw_skill),
                     tables |-> Tables, pending |-> sPending]
        /\ UNCHANGED <<sAlias, sCanon, sInfos, sCalls, spc, sPending>>
        /\ UNCHANGED <<vvars, pvars, dvars, lvars, xvars, nvars>>

CallNormalizeSkillsList ==
    \E raw_skills \in SeqsUpTo(RawSkills, MaxList) :
        /\ sQueries < MaxQueries
        /\ sQueries' = sQueries + 1
        /\ sCall' = [op |-> "normalize_skills_list", input |-> raw_skills,
                     output |-> normalize_skills_list(Tables, raw_skills),
                     tables |-> Tables, pending |-> sPending]
        /\ UNCHANGED <<sAlias, sCanon, sInfos, sCalls, spc, sPending>>
        /\ UNCHANGED <<vvars, pvars, dvars, lvars, xvars, nvars>>

CallAddCustomAlias ==
    \E canonical_name \in CustomCanonicals, alias \in CustomAliases,
       category \in CustomCategories :
        /\ sCalls < MaxCalls
        /\ SetTables(add_custom_alias(Tables, canonical_name, alias, category))
        /\ sCalls' = sCalls + 1
        /\ UNCHANGED <<sQueries, sCall, spc, sPending>>
        /\ UNCHANGED <<vvars, pvars, dvars, lvars, xvars, nvars>>

SkillsInit == VIdle /\ PIdle /\ DIdle /\ LIdle /\ XIdle /\ SInit /\ NIdle

SkillsNext ==
    \/ CallNormalizeSkill
    \/ CallNormalizeSkillsList
    \/ CallAddCustomAlias

SkillsSpec == SkillsInit /\ [][SkillsNext]_vars

(***************************************************************************)
(* add_custom_alias in one thread, normalize_skill in another.  The method  *)
(* takes no lock, so a lookup can run between its two writes.               *)
(***************************************************************************)
AddCustomAliasUpdateInfo ==
    \E canonical_name \in CustomCanonicals, alias \in CustomAliases,
       category \in CustomCategories :
        /\ spc = "idle"
        /\ sCalls < MaxCalls
        /\ SetTables(UpdateOrCreateInfo(Tables, canonical_name, alias, category))
        /\ sCalls' = sCalls + 1
        /\ spc' = "update_alias"
        /\ sPending' = [active |-> TRUE, canonical_name |-> canonical_name,
                        alias |-> alias, category |-> category]
        /\ UNCHANGED <<sQueries, sCall>>
        /\ UNCHANGED <<vvars, pvars, dvars, lvars, xvars, nvars>>

AddCustomAliasUpdateLookup ==
    /\ spc = "update_alias"
    /\ SetTables(UpdateAliasLookup(Tables, sPending.canonical_name, sPending.alias))
    /\ spc' = "idle"
    /\ sPending' = NoPending
    /\ UNCHANGED <<sCalls, sQueries, sCall>>
    /\ UNCHANGED <<vvars, pvars, dvars, lvars, xvars, nvars>>

SkillsThreadsNext ==
    \/ AddCustomAliasUpdateInfo
    \/ AddCustomAliasUpdateLookup
    \/ CallNormalizeSkill

SkillsThreadsSpec == SkillsInit /\ [][SkillsThreadsNext]_vars

\* raw_skill is the canonical name or a listed alias of the entry, in any case
IsVariantOf(raw_skill, skill_info) ==
    \/ LowerStr(raw_skill) = LowerStr(skill_info.canonical)
    \/ LowerStr(raw_skill) \in LowerAliases(skill_info)

\* C11 as stated: normalize_skill of an alias variant of an alias-table
\* entry (a listed alias or the canonical name, in any letter case) returns
\* the canonical name and the category of that entry with confidence 0.95.
C11_AliasVariantsResolve ==
    sCall.op = "normalize_skill" =>
        \A ref \in DOMAIN sCall.tables.infos :
            IsVariantOf(sCall.input, sCall.tables.infos[ref]) =>
                /\ sCall.output.canonical_name = sCall.tables.infos[ref].canonical
                /\ sCall.output.category = sCall.tables.infos[ref].category
                /\ sCall.output.confidence_score = KnownConfidence

Reorderings(seq) ==
    { [i \in DOMAIN seq |-> seq[f[i]]] :
        f \in {g \in [DOMAIN seq -> DOMAIN seq] :
                  \A i, j \in DOMAIN seq : g[i] = g[j] => i = j} }

CanonicalNames(skills) == [i \in DOMAIN skills |-> skills[i].canonical_name]

SortedByCategoryThenName(skills) ==
    \A i \in 1..(Len(skills) - 1) : ~SortKeyLess(skills[i + 1], skills[i])

\* C12 as stated: in every state of the alias tables, states after
\* add_custom_alias included, normalize_skills_list returns for every
\* permutation of its input the same sequence of canonical names, ordered by
\* category and then canonical name.
C12_OrderIndependent ==
    sCall.op = "normalize_skills_list" =>
        /\ SortedByCategoryThenName(sCall.output)
        /\ \A permuted \in Reorderings(sCall.input) :
               CanonicalNames(normalize_skills_list(sCall.tables, permuted))
                   = CanonicalNames(sCall.output)

NonBlank(raw_skills) == {i \in DOMAIN raw_skills : raw_skills[i] # <<>>}

CanonicalKey(tables, raw_skill) ==
    LowerStr(normalize_skill(tables, raw_skill).canonical_name)

FirstMapping(tables, raw_skills, key) ==
    CHOOSE i \in NonBlank(raw_skills) :
        /\ CanonicalKey(tables, raw_skills[i]) = key
        /\ \A j \in NonBlank(raw_skills) :
               CanonicalKey(tables, raw_skills[j]) = key => i <= j

\* C13: normalize_skills_list returns exactly one entry per distinct
\* lower-cased canonical name among its non-blank inputs, and that entry is
\* the one normalize_skill produces for the first input mapping to the name.
C13_OneEntryPerCanonicalName ==
    sCall.op = "normalize_skills_list" =>
        LET canonical_keys == {CanonicalKey(sCall.tables, sCall.input[i]) :
                                  i \in NonBlank(sCall.input)}
        IN /\ Len(sCall.output) = Cardinality(canonical_keys)
           /\ \A key \in canonical_keys :
                  \E k \in DOMAIN sCall.output :
                      sCall.output[k] =
                          normalize_skill(sCall.tables,
                              sCall.input[FirstMapping(sCall.tables, sCall.input, key)])

\* Two different non-blank inputs mapped to one canonical name, and the entry
\* returned carries the name of the first of them.
C13_Witness ==
    /\ sCall.op = "normalize_skills_list"
    /\ Len(sCall.input) = 2
    /\ sCall.input[1] # <<>> /\ sCall.input[2] # <<>>
    /\ sCall.input[1] # sCall.input[2]
    /\ Len(sCall.output) = 1
    /\ sCall.output[1].name = sCall.input[1]

\* C14 as stated: after any sequence of add_custom_alias calls every alias
\* listed in an entry resolves through the alias index to that entry, and
\* every canonical name of the canonical index resolves through the alias
\* index to its own entry.
C14_IndexesConsistent ==
    /\ \A ref \in DOMAIN sInfos :
           \A alias \in LowerAliases(sInfos[ref]) :
               alias \in DOMAIN sAlias /\ sAlias[alias] = ref
    /\ \A canonical_lower \in DOMAIN sCanon :
           /\ canonical_lower \in DOMAIN sAlias
           /\ sAlias[canonical_lower] = sCanon[canonical_lower]

\* C15 as stated: a lookup that runs while a registration is in progress
\* never sees the entry listing the new alias (or the canonical index holding
\* the new entry) while the alias index does not yet resolve that alias.
C15_NoPartialRegistrationObserved ==
    (sCall.op = "normalize_skill" /\ sCall.pending.active) =>
        LET tables == sCall.tables
            alias == LowerStr(sCall.pending.alias)
            canonical_lower == LowerStr(sCall.pending.canonical_name)
        IN (/\ canonical_lower \in DOMAIN tables.canon
            /\ alias \in LowerAliases(tables.infos[tables.canon[canonical_lower]]))
               => /\ alias \in DOMAIN tables.alias
                  /\ tables.alias[alias] = tables.canon[canonical_lower]

(***************************************************************************)
(* A PDF job: PDFExtractor.extract (pdf_extractor.py) followed by the       *)
(* assembly of the profile (profile_validator.py: _transform_parser_output) *)
(***************************************************************************)
\* A file in storage:
\*   stored - "encrypted" when it is encrypted at rest, "plain" otherwise
\*   reader - first library that gets text out of the document: "pdfplumber",
\*            "pypdf2", or "none" for a document without extractable text
\*   text   - the lines of the document's text
\*   email  - EMAIL_PATTERN finds an address in the text
\* A line of text that _clean_text drops (a page number, a single character)
ArtifactLine == [artifact |-> TRUE]
PdfTextLines == Lines \cup {ArtifactLine}

PdfFiles ==
    {f \in [stored : {"plain", "encrypted"}, reader : {"pdfplumber", "pypdf2", "none"},
            text : SeqsUpTo(PdfTextLines, MaxPdfLines), email : BOOLEAN] :
        /\ (f.reader = "none") = (f.text = <<>>)
        /\ f.email => f.text # <<>>}

\* what open(file_path, 'rb') yields
StoredBytes(file) == IF file.stored = "encrypted" THEN "ciphertext" ELSE "document"

\* FileService.read_encrypted_file: decrypt, or read directly when the file
\* is not encrypted
read_encrypted_file(file) ==
    IF file.stored = "encrypted" THEN "document" ELSE StoredBytes(file)

\* lines 135-167: pdfplumber.open(file_path); any exception gives ''
_extract_with_pdfplumber(file) ==
    IF StoredBytes(file) = "document" /\ file.reader = "pdfplumber" THEN file.text ELSE <<>>

\* lines 169-197: open(file_path, 'rb') and PdfReader; any exception gives ''
_extract_with_pypdf2(file) ==
    IF StoredBytes(file) = "document" /\ file.reader = "pypdf2" THEN file.text ELSE <<>>

PdfWarnings ==
    [limitations |-> <<"PDF extraction has limitations with complex layouts",
                       "Tables and multi-column formats may not parse correctly",
                       "Some formatting information may be lost">>,
     used_fallback |-> "Used fallback PDF extraction method",
     extraction_failed |-> "PDF text extraction failed - document may be image-based",
     no_text |-> "No text content extracted from PDF",
     no_sections |-> "No clear sections detected - using heuristic extraction",
     limited |-> "Limited extraction due to unclear document structure",
     no_email |-> "No email address detected (PDF parsing limitation)"]

\* text.strip() is empty
IsBlank(text) == text = <<>>

KeptByCleaning(line) == line # ArtifactLine

\* lines 213-217: _clean_text, then the non-empty lines
CleanedLines(text) == SelectSeq(text, KeptByCleaning)

\* line 258: not any(sections.values())
NoSectionHasLines(sections) ==
    \A name \in SectionNames : sections[name].present => sections[name].idx = <<>>

\* extract, lines 83-107
PdfReadText ==
    /\ xpc = "read"
    /\ LET plumber == _extract_with_pdfplumber(xFile)
           text_content == IF IsBlank(plumber) THEN _extract_with_pypdf2(xFile) ELSE plumber
           w1 == IF IsBlank(plumber)
                 THEN Append(PdfWarnings.limitations, PdfWarnings.used_fallback)
                 ELSE PdfWarnings.limitations
       IN /\ xText' = text_content
          /\ xWarnings' = IF IsBlank(text_content)
                          THEN Append(w1, PdfWarnings.extraction_failed) ELSE w1
    /\ xRead' = [via |-> "open", bytes |-> StoredBytes(xFile)]
    /\ xpc' = "process"
    /\ UNCHANGED <<xFile, xExtracted, xResult, xProfile>>
    /\ UNCHANGED <<vvars, pvars, dvars, lvars, svars, nvars>>

\* _process_text_content, lines 201-220: the early return for blank text,
\* otherwise the lines handed to _detect_sections_heuristic
PdfProcessText ==
    /\ xpc = "process"
    /\ IF IsBlank(xText) THEN
           /\ xExtracted' = [made |-> TRUE, email |-> FALSE, fallback |-> FALSE,
                             warnings |-> <<PdfWarnings.no_text>>]
           /\ xpc' = "normalize"
           /\ UNCHANGED lvars
       ELSE
           /\ lLines' = CleanedLines(xText)
           /\ xpc' = "scan"
           /\ UNCHANGED <<lCursor, lCurrent, lSections, xExtracted>>
    /\ UNCHANGED <<xFile, xRead, xText, xWarnings, xResult, xProfile>>
    /\ UNCHANGED <<vvars, pvars, dvars, svars, nvars>>

\* _process_text_content, lines 222-262, and _extract_from_full_text
PdfExtractSections ==
    /\ xpc = "scan"
    /\ lCursor = Len(lLines)
    /\ xExtracted' =
           IF NoSectionHasLines(lSections)
           THEN [made |-> TRUE, email |-> xFile.email, fallback |-> TRUE,
                 warnings |-> <<PdfWarnings.no_sections, PdfWarnings.limited>>]
           ELSE [made |-> TRUE, email |-> xFile.email, fallback |-> FALSE,
                 warnings |-> <<>>]
    /\ xpc' = "normalize"
    /\ UNCHANGED <<xFile, xRead, xText, xWarnings, xResult, xProfile>>
    /\ UNCHANGED <<vvars, pvars, dvars, lvars, svars, nvars>>

\* keys of the dictionary _normalize_output builds (lines 545-562)
ResultKeys == {"extraction_method", "sections", "warnings", "metadata"}

\* extract, line 111, and _normalize_output, lines 537-564
PdfNormalizeOutput ==
    /\ xpc = "normalize"
    /\ LET warnings == IF xExtracted.email THEN xWarnings
                       ELSE Append(xWarnings, PdfWarnings.no_email)
       IN /\ xExtracted' = [xExtracted EXCEPT !.warnings = warnings]
          /\ xResult' = [made |-> TRUE, keys |-> ResultKeys,
                         extraction_method |-> "pdf_heuristic",
                         sections |-> SectionOrder,
                         warnings |-> warnings]
    /\ xpc' = "assemble"
    /\ UNCHANGED <<xFile, xRead, xText, xWarnings, xProfile>>
    /\ UNCHANGED <<vvars, pvars, dvars, lvars, svars, nvars>>

FileName(stem, ext) == [stem |-> stem, ext |-> ext]

\* ProfileValidator._detect_file_type, lines 456-469
validator_detect_file_type(filename) ==
    IF filename.ext \in {"docx", "doc"} THEN "docx"
    ELSE IF filename.ext = "pdf" THEN "pdf"
    ELSE IF filename.ext \in {"txt", "text"} THEN "txt"
    ELSE "unknown"

\* _transform_parser_output, lines 225-227 and 260-267: the source file and
\* the metadata of the profile built from a parser result
TransformMetadata(parser_result) ==
    LET source_file == IF "file_path" \in parser_result.keys
                       THEN parser_result.file_path
                       ELSE FileName("unknown", "docx")
    IN [made |-> TRUE, source_file |-> source_file,
        file_type |-> validator_detect_file_type(source_file),
        sections_detected |-> parser_result.sections]

\* parse_resume, line 183: validate_parser_output on the extractor's result
PdfAssembleProfile ==
    /\ xpc = "assemble"
    /\ xProfile' = TransformMetadata(xResult)
    /\ xpc' = "done"
    /\ UNCHANGED <<xFile, xRead, xText, xWarnings, xExtracted, xResult>>
    /\ UNCHANGED <<vvars, pvars, dvars, lvars, svars, nvars>>

PdfJobInit ==
    /\ VIdle /\ PIdle /\ DIdle /\ LIdle /\ SIdle /\ NIdle
    /\ xpc = "read"
    /\ xFile \in PdfFiles
    /\ xRead = NoRead
    /\ xText = <<>>
    /\ xWarnings = <<>>
    /\ xExtracted = NoExtracted
    /\ xResult = NoPdfResult
    /\ xProfile = NoMetadata

PdfJobNext ==
    \/ PdfReadText
    \/ PdfProcessText
    \/ PdfScanLine
    \/ PdfExtractSections
    \/ PdfNormalizeOutput
    \/ PdfAssembleProfile

PdfJobSpec == PdfJobInit /\ [][PdfJobNext]_vars

\* C16 as stated: the profile assembled for a job routed to the PDF extractor
\* has metadata.file_type "pdf", the type of the document that was parsed.
C16_PdfJobFileType ==
    xpc = "done" => xProfile.file_type = "pdf"

\* C17 as stated: metadata.sections_detected lists exactly the sections the
\* extractor detected; a section for which no header was found is not listed.
C17_SectionsDetectedExact ==
    xpc = "done" =>
        SeqToSet(xProfile.sections_detected)
            = {name \in SectionNames : lSections[name].present}

\* C18 as stated: the full-text fallback runs only when no section header
\* was detected in the document.
C18_FallbackOnlyWithoutHeaders ==
    (xExtracted.made /\ xExtracted.fallback) =>
        \A name \in SectionNames : ~lSections[name].present

\* C19 as stated: the warnings of the result returned by extract contain the
\* fixed limitation warnings, the fallback warnings when the fallback ran and
\* the no-text warning when no text content was extracted.
C19_AllWarningsAttached ==
    xpc = "done" =>
        /\ SeqToSet(PdfWarnings.limitations) \subseteq SeqToSet(xResult.warnings)
        /\ xExtracted.fallback =>
               {PdfWarnings.no_sections, PdfWarnings.limited} \subseteq SeqToSet(xResult.warnings)
        /\ IsBlank(xText) => PdfWarnings.no_text \in SeqToSet(xResult.warnings)

\* C20 as stated: the bytes the PDF extractor parses are the decrypted bytes
\* that read_encrypted_file returns for the stored file.
C20_PdfParsesDecryptedBytes ==
    xRead # NoRead => xRead.bytes = read_encrypted_file(xFile)

\* ---------------------------------------------------------------------
\* File store: upload, store, damage on disk, read back
\* ---------------------------------------------------------------------

MaxFileOps == 3
MaxChunks == 2

DocTag == "resume"
FileSizes ==
    {0, 1, MAX_FILE_SIZE + 1}
        \cup {k * CHUNK_SIZE + d : k \in 1..MaxChunks, d \in {-1, 0, 1}}

FileNames ==
    { <<"resume", "pdf">>, <<"resume", "PDF">>, <<"cv", "docx">>,
      <<"notes", "txt">>, <<"archive", "tar", "gz">>, <<"pdf">>, <<"">> }

\* FileService.store_file called with any content
FileStore ==
    /\ fOps < MaxFileOps
    /\ \E size \in FileSizes, io_error \in BOOLEAN :
        /\ fDisk' = store_file(fDisk, Content(DocTag, size), io_error)
        /\ fOriginal' = Content(DocTag, size)
    /\ fOps' = fOps + 1
    /\ UNCHANGED <<fResult, fUpload>>
    /\ UNCHANGED <<ovars, evars, cvars, tvars>>

\* the stored file is damaged on disk
FileCorrupt ==
    /\ fOps < MaxFileOps
    /\ fDisk["full"].exists
    /\ fDisk["full"].bytes # <<>>
    /\ \A i \in 1..Len(fDisk["full"].bytes) : fDisk["full"].bytes[i].kind # "corrupted"
    /\ fDisk' = [fDisk EXCEPT !["full"] = FileOf(Corrupted(@.bytes))]
    /\ fOps' = fOps + 1
    /\ UNCHANGED <<fOriginal, fResult, fUpload>>
    /\ UNCHANGED <<ovars, evars, cvars, tvars>>

\* the stored file is removed from disk
FileDelete ==
    /\ fOps < MaxFileOps
    /\ fDisk["full"].exists
    /\ fDisk' = Unlink(fDisk, "full")
    /\ fOps' = fOps + 1
    /\ UNCHANGED <<fOriginal, fResult, fUpload>>
    /\ UNCHANGED <<ovars, evars, cvars, tvars>>

\* FileService.read_encrypted_file on the stored path
FileRead ==
    /\ fOps < MaxFileOps
    /\ LET outcome == ReadEncryptedFile(fDisk, "full")
       IN  /\ fDisk' = outcome.disk
           /\ fResult' = [kind |-> outcome.kind, value |-> outcome.value,
                          exc |-> outcome.exc, file |-> fDisk["full"]]
    /\ fOps' = fOps + 1
    /\ UNCHANGED <<fOriginal, fUpload>>
    /\ UNCHANGED <<ovars, evars, cvars, tvars>>

UploadAnswer(code, error, filename, file_size) ==
    [status |-> code, error |-> error, filename |-> filename, file_size |-> file_size]

\* upload_resume: the checks of the request, then the store
FileUpload ==
    /\ fOps < MaxFileOps
    /\ \E filename \in FileNames, size \in FileSizes, io_error \in BOOLEAN :
        IF filename = <<"">>
        THEN /\ fUpload' = UploadAnswer(400, "validation_error", filename, 0)
             /\ UNCHANGED <<fDisk, fOriginal>>
        ELSE IF ~validate_file_type(filename)
        THEN /\ fUpload' = UploadAnswer(400, "invalid_file_type", filename, 0)
             /\ UNCHANGED <<fDisk, fOriginal>>
        ELSE IF ~validate_file_size(size)
        THEN /\ fUpload' = UploadAnswer(413, "file_too_large", filename, size)
             /\ UNCHANGED <<fDisk, fOriginal>>
        ELSE /\ fUpload' = UploadAnswer(200, None, filename, size)
             /\ fDisk' = store_file(fDisk, Content(DocTag, size), io_error)
             /\ fOriginal' = Content(DocTag, size)
    /\ fOps' = fOps + 1
    /\ UNCHANGED fResult
    /\ UNCHANGED <<ovars, evars, cvars, tvars>>

FileInit == VIdle /\ PIdle /\ DIdle /\ LIdle /\ SIdle /\ XIdle /\ FIdle /\ EIdle /\ CIdle /\ TIdle

FileNext ==
    \/ FileStore
    \/ FileCorrupt
    \/ FileDelete
    \/ FileRead
    \/ FileUpload

FileSpec == FileInit /\ [][FileNext]_vars

UndecryptableCiphertext(file) ==
    /\ file.exists
    /\ file.bytes # <<>>
    /\ file.bytes[1].kind = "corrupted"
    /\ file.bytes[1].of[1].kind = "token"

\* C21 as stated: read_encrypted_file returns the decrypted document or
\* raises: FileNotFoundError for a missing file, another error for a
\* ciphertext file that was damaged, and what it returns is never
\* ciphertext or damaged bytes.
C21_DecryptedOrError ==
    fResult.kind # "none" =>
        /\ ~fResult.file.exists =>
              fResult.kind = "raised" /\ fResult.exc = "FileNotFoundError"
        /\ UndecryptableCiphertext(fResult.file) =>
              fResult.kind = "raised" /\ fResult.exc # "FileNotFoundError"
        /\ fResult.kind = "returned" =>
              \A i \in 1..Len(fResult.value) : fResult.value[i].kind = "plain"

HasAllowedExtension(filename) ==
    /\ Len(filename) > 1
    /\ Lower(filename[Len(filename)]) \in {"pdf", "docx"}

\* C25 as stated: a named upload is refused for its type exactly when the
\* extension of the file name, compared case-insensitively, is neither pdf
\* nor docx.
C25_AllowedExtensionsAccepted ==
    (fUpload.status # 0 /\ fUpload.filename # <<"">>) =>
        ((fUpload.error = "invalid_file_type") = ~HasAllowedExtension(fUpload.filename))

StoredFrom(content) == {FileOf(_encrypt_stream(content)), FileOf(content)}

\* C28 as stated: reading back what store_file stored returns exactly the
\* bytes that were stored, whatever their size, and leaves no .tmp, .enc or
\* .decrypt_tmp file behind.
C28_StoreReadRoundTrip ==
    (fResult.kind # "none" /\ fResult.file \in StoredFrom(fOriginal)) =>
        /\ fResult.kind = "returned"
        /\ fResult.value = fOriginal
        /\ \A path \in {"tmp", "enc", "decrypt_tmp"} : ~fDisk[path].exists

\* ---------------------------------------------------------------------
\* Parsing one DOCX experience block
\* ---------------------------------------------------------------------

MaxEntryLines == 4

TitleLinePool ==
    { <<"Senior", "Engineer", "|", "Acme", "Corp">>,
      <<"Ledger", "Analyst", "|", "Acme", "Corp">>,
      <<"Senior", "Engineer">>,
      <<"Acme", "Corp">> }
DateLinePool ==
    { <<"2020", "-", "2023">>,
      <<"2020", "-", "Present">>,
      <<"Jan", "2020", "-", "Dec", "2023">> }
BulletLinePool ==
    { <<"-", "Led", "migration">>,
      <<"u2022", "Mentored", "team">>,
      <<"Led", "migration">> }

ExperienceBlocks ==
    SeqsUpTo(TitleLinePool \cup DateLinePool \cup BulletLinePool, MaxEntryLines)

ParseExperienceEntry ==
    /\ epc = "call"
    /\ eParsed' = _parse_experience_entry(eEntry)
    /\ epc' = "done"
    /\ UNCHANGED eEntry
    /\ UNCHANGED <<ovars, fvars, cvars, tvars>>

ExperienceInit ==
    /\ VIdle /\ PIdle /\ DIdle /\ LIdle /\ SIdle /\ XIdle /\ FIdle /\ CIdle /\ TIdle
    /\ eEntry \in ExperienceBlocks
    /\ eParsed = NoEntry
    /\ epc = "call"

ExperienceNext == ParseExperienceEntry

ExperienceSpec == ExperienceInit /\ [][ExperienceNext]_vars

\* the block of the claim: "T | C", a date-range line, then bullet lines
IsTitleCompanyLine(line) == ~IsBulletLine(line) /\ WordAt(line, {"|"}) # {}
TitleDateBullets(lines) ==
    /\ Len(lines) >= 2
    /\ IsTitleCompanyLine(lines[1])
    /\ lines[2] \in DateLinePool
    /\ \A i \in 3..Len(lines) : IsBulletLine(lines[i])

\* C22 as stated: for the block "T | C", date range, bullets the entry has
\* title T, company C, the date-range text as duration and the bullet texts
\* in order as responsibilities.
C22_TitleCompanyDurationBullets ==
    (epc = "done" /\ TitleDateBullets(eEntry)) =>
        /\ eParsed.made
        /\ eParsed.title = Before(eEntry[1], FirstOf(WordAt(eEntry[1], {"|"})))
        /\ eParsed.company = After(eEntry[1], FirstOf(WordAt(eEntry[1], {"|"})))
        /\ eParsed.duration = eEntry[2]
        /\ eParsed.responsibilities = [i \in 1..(Len(eEntry) - 2) |-> Tail(eEntry[i + 2])]

\* ---------------------------------------------------------------------
\* Scoring the same extracted content with both extractors
\* ---------------------------------------------------------------------

MaxItems == 2

Contacts == { [x \in {} |-> None], [email |-> <<"ada@example.org">>],
              [email |-> <<>>], [phone |-> <<"555-0100">>] }
Summaries == { <<>>, <<"Engineer">> }
ItemLists == { [i \in 1..n |-> "item"] : n \in 0..MaxItems }

ExtractedContents ==
    [contact : Contacts, summary : Summaries, experience : ItemLists,
     education : ItemLists, skills : ItemLists]

DocxCalculateConfidence ==
    /\ cExtracted # NoContent
    /\ cDocx = Unscored
    /\ cDocx' = Scored(docx_calculate_confidence_score(cExtracted))
    /\ UNCHANGED <<cExtracted, cPdf>>
    /\ UNCHANGED <<ovars, fvars, evars, tvars>>

PdfCalculateConfidence ==
    /\ cExtracted # NoContent
    /\ cPdf = Unscored
    /\ cPdf' = Scored(pdf_calculate_confidence_score(cExtracted))
    /\ UNCHANGED <<cExtracted, cDocx>>
    /\ UNCHANGED <<ovars, fvars, evars, tvars>>

ConfidenceInit ==
    /\ VIdle /\ PIdle /\ DIdle /\ LIdle /\ SIdle /\ XIdle /\ FIdle /\ EIdle /\ TIdle
    /\ cExtracted \in ExtractedContents
    /\ cDocx = Unscored
    /\ cPdf = Unscored

ConfidenceNext ==
    \/ DocxCalculateConfidence
    \/ PdfCalculateConfidence

ConfidenceSpec == ConfidenceInit /\ [][ConfidenceNext]_vars

ScoredItems == {"email", "summary", "experience", "education", "skills"}
DocxWeights ==
    [email |-> 200, summary |-> 100, experience |-> 300, education |-> 200, skills |-> 200]
PdfWeights ==
    [email |-> 150, summary |-> 100, experience |-> 200, education |-> 150, skills |-> 100]

HasEmail(contact) == "email" \in DOMAIN contact /\ contact.email # <<>>
PresentItems(extracted) ==
    {item \in ScoredItems :
        IF item = "email" THEN HasEmail(extracted.contact) ELSE extracted[item] # <<>>}

RECURSIVE SumOver(_, _)
SumOver(items, weights) ==
    IF items = {} THEN 0
    ELSE LET item == CHOOSE x \in items : TRUE
         IN  weights[item] + SumOver(items \ {item}, weights)

\* C23: each score is the (discounted, for PDF) sum of the weights of the
\* items present and lies in [0, 1]; the PDF score is at most 0.8 and never
\* above the DOCX score of the same content.
C23_ConfidenceWeightedAndCapped ==
    /\ cDocx.scored =>
          /\ cDocx.score = SumOver(PresentItems(cExtracted), DocxWeights)
          /\ 0 <= cDocx.score /\ cDocx.score <= 1000
    /\ cPdf.scored =>
          /\ cPdf.score * 10 = 8 * SumOver(PresentItems(cExtracted), PdfWeights)
          /\ 0 <= cPdf.score /\ cPdf.score <= 800
    /\ (cDocx.scored /\ cPdf.scored) => cPdf.score <= cDocx.score

C23_Witness ==
    /\ PresentItems(cExtracted) = ScoredItems
    /\ cDocx = Scored(1000)
    /\ cPdf = Scored(560)

\* ---------------------------------------------------------------------
\* Lenient validation: one retry without the rejected top-level fields
\* ---------------------------------------------------------------------

VersionChecked == VersionStep(InData, vStrict)
FirstAttempt == ProfileJSONSchema(VersionChecked.data)

\* a lenient call whose first validation (line 88) was rejected
LenientRetryCase ==
    /\ CalledOnDict
    /\ ~vStrict
    /\ VersionChecked.next = "validate"
    /\ ~FirstAttempt.ok

OriginalErrors == VersionChecked.errors \o FirstAttempt.errs

RejectedTopLevel ==
    {FirstAttempt.errs[i].loc[1] :
        i \in {j \in DOMAIN FirstAttempt.errs : Len(FirstAttempt.errs[j].loc) = 1}}

\* Removing the rejected fields repairs the dictionary when every error
\* names a top-level field that has a default, and what is left of
\* additional_sections passes the privacy check.
RetryCanSucceed ==
    /\ \A i \in DOMAIN FirstAttempt.errs :
          /\ Len(FirstAttempt.errs[i].loc) = 1
          /\ FirstAttempt.errs[i].loc[1] \notin RequiredFields
    /\ \/ "additional_sections" \in RejectedTopLevel
       \/ privacy_compliance_check(VersionChecked.data.bag) = <<>>

\* C24: a lenient call whose validation is rejected retries once without
\* the rejected top-level fields; a successful retry gives a valid result,
\* no errors and a warning for every original error, a failed retry gives
\* an invalid result without profile that keeps the original errors.
C24_LenientRetriesOnce ==
    LenientRetryCase =>
        /\ vResult.raised = "none"
        /\ vResult.is_valid = RetryCanSucceed
        /\ vResult.is_valid =>
              /\ vResult.errors = <<>>
              /\ \A i \in DOMAIN OriginalErrors :
                    RemovedWarning(OriginalErrors[i]) \in SeqToSet(vResult.warnings)
              /\ vResult.profile.from_input =
                    Profile(VersionChecked.data).from_input \ RejectedTopLevel
        /\ ~vResult.is_valid =>
              /\ vResult.profile = NoProfile
              /\ Len(vResult.errors) = Len(OriginalErrors) + 1
              /\ SubSeq(vResult.errors, 1, Len(OriginalErrors)) = OriginalErrors
              /\ vResult.errors[Len(vResult.errors)].kind = "failed_to_clean"

C24_Witness ==
    /\ LenientRetryCase
    /\ InData.nested
    /\ ~vResult.is_valid
    /\ \E i \in DOMAIN vResult.errors :
          vResult.errors[i].kind = "field" /\ vResult.errors[i].loc = <<"contact", "phone">>

\* ---------------------------------------------------------------------
\* DOCX: the section map read back by _extract_content
\* ---------------------------------------------------------------------

\* the unit of the paragraph list that _detect_sections stored as index i
UnitStoredAs(paras, i) == paras[CHOOSE j \in DOMAIN paras : paras[j].index = i]
AppendedTexts(paras, para_indices) ==
    [k \in DOMAIN para_indices |-> TextOf(UnitStoredAs(paras, para_indices[k]))]

\* C26 as stated: the text assembled for a section consists of the texts of
\* the units that _detect_sections appended to it, in document order.
C26_ContentMatchesSectionMap ==
    dpc = "extracted" =>
        \A name \in SectionNames :
            dContent[name] = AppendedTexts(dParas, dSections[name].idx)

\* ---------------------------------------------------------------------
\* parse_resume: terminal metrics
\* ---------------------------------------------------------------------

\* C27 as stated: when parse_resume has returned and a trace id was issued,
\* exactly one terminal metric (parse_success or parse_failure) carries that
\* trace id, and a failed job has no parse_success.
C27_OneTerminalMetricPerTrace ==
    (ppc = "returned" /\ pTrace # "unset") =>
        /\ Cardinality(EventsOf("parse_success", pTrace))
              + Cardinality(EventsOf("parse_failure", pTrace)) = 1
        /\ pResponse.status = "failed" => EventsOf("parse_success", pTrace) = {}

\* ---------------------------------------------------------------------
\* normalize_skill applied to its own canonical name
\* ---------------------------------------------------------------------

\* C30 as stated: normalizing the canonical name that normalize_skill
\* returned gives the same canonical name and the same category.
C30_CanonicalNameIsFixedPoint ==
    sCall.op = "normalize_skill" =>
        LET again == normalize_skill(sCall.tables, sCall.output.canonical_name)
        IN  /\ again.canonical_name = sCall.output.canonical_name
            /\ again.category = sCall.output.category

\* ---------------------------------------------------------------------
\* Transforming the section lists of an extractor's output
\* ---------------------------------------------------------------------

MaxSectionItems == 2

\* what _parse_experience_entry, _parse_education_entry and
\* _parse_project_entry return: dicts
ExperienceItems == { PyDict({"title", "company", "duration", "responsibilities"}) }
EducationItems == { PyDict({"degree", "institution", "year", "details"}) }
ProjectItems == { PyDict({"name", "description", "technologies", "details"}) }
\* what _extract_skills returns: strings
SkillItems == { PyStr(<<"Python">>), PyStr(<<"Docker">>) }
\* the items an achievements text splits into
AchievementLines == { <<"MVP">>, <<"Employee", "of", "the", "Year", "2021">> }

ExtractedSections(method) ==
    { NormalizedSections(
          [experience |-> ex, education |-> ed, skills |-> sk, projects |-> pr,
           achievements |-> IF method = "docx_deterministic"
                            THEN docx_extract_achievements(ac)
                            ELSE pdf_extract_achievements_heuristic(ac)]) :
        ex \in SeqsUpTo(ExperienceItems, MaxSectionItems),
        ed \in SeqsUpTo(EducationItems, MaxSectionItems),
        sk \in SeqsUpTo(SkillItems, MaxSectionItems),
        pr \in SeqsUpTo(ProjectItems, MaxSectionItems),
        ac \in SeqsUpTo(AchievementLines, MaxSectionItems) }

\* validate_parser_output, line 198: _transform_parser_output(parser_result)
TransformParserOutput ==
    /\ tpc = "extracted"
    /\ tProfile' = TransformSections(tSections)
    /\ tpc' = "done"
    /\ UNCHANGED <<tMethod, tSections>>
    /\ UNCHANGED <<ovars, fvars, evars, cvars>>

TransformInit ==
    /\ VIdle /\ PIdle /\ DIdle /\ LIdle /\ SIdle /\ XIdle /\ FIdle /\ EIdle /\ CIdle
    /\ tpc = "extracted"
    /\ tMethod \in {"docx_deterministic", "pdf_heuristic"}
    /\ tSections \in ExtractedSections(tMethod)
    /\ tProfile = NoSectionLists

TransformNext == TransformParserOutput

TransformSpec == TransformInit /\ [][TransformNext]_vars

\* C29 as stated: the candidate profile has, in each of its five list
\* sections, as many entries as the extractor's output has in that section.
C29_TransformLosesNoEntry ==
    tpc = "done" =>
        \A name \in ListSections : Len(tProfile[name]) = Len(tSections[name])

====
